---------------------------- MODULE Spec2Model ----------------------------
(***************************************************************************)
(* Trivanta Edge ERP: the flat-file repository (utils/data_manager.py),    *)
(* its cloud-sync replacement (utils/firebase_data_manager.py), the route  *)
(* handlers that drive them, the analytics cache and the notification      *)
(* relay, as state machines.                                               *)
(***************************************************************************)
EXTENDS Integers, Sequences, FiniteSets, TLC

VARIABLES
    dm,                  \* DataManager.data: the in-memory JSON document
    fb,                  \* FirebaseDataManager.data: its in-memory document
    disk,                \* data/trivanta_erp.json, the persisted document
    dm_auth,             \* api/auth.py's own DataManager.data
    reset_log,           \* per reset token drawn: has it changed a password
    last,                \* the last repository call or request: op, args, result
    today,               \* datetime.now() as a calendar day number
    otp_calls,           \* the last three OTP calls (get and generate)
    now,                 \* datetime.now().timestamp(), in seconds
    cache,               \* AnalyticsEngine.cache['comprehensive_analytics']
    calls,               \* the latest get_comprehensive_analytics() call
    connected_users,     \* WebSocketManager.connected_users
    notification_queue,  \* WebSocketManager.notification_queue
    emitted,             \* per user, the notifications emitted to room user_<id>
    sent,                \* number of notifications handed to send_notification
    sockets,             \* the open Socket.IO connections: sid, user_id, role
    thr,                 \* per request thread of update_project: pc and locals
    fh                   \* per request thread: the open file handle of save_data

repoVars == <<dm, fb, disk, dm_auth, reset_log>>
otpVars  == <<today, otp_calls>>
anaVars  == <<now, cache, calls>>
wsVars   == <<connected_users, notification_queue, emitted, sent, sockets>>
thrVars  == <<thr, fh>>
vars     == <<dm, fb, disk, dm_auth, reset_log, last, today, otp_calls, now, cache, calls,
              connected_users, notification_queue, emitted, sent, sockets,
              thr, fh>>

-----------------------------------------------------------------------------
(* Bounds of the model *)

\* Records held by the two repositories together.
MaxRecords == 3

-----------------------------------------------------------------------------
(* Values *)

Roles         == {"admin", "manager", "employee"}
BusinessTypes == {"installation", "manufacturing"}
ProjectTypes  == {"installation", "manufacturing"}

\* Optional values: a lookup returns None or Some(record).
None    == <<>>
Some(r) == <<r>>

\* dict.get(key, default)
Get(r, key, default) == IF key \in DOMAIN r THEN r[key] ELSE default

\* Dates are day numbers; the empty string of a date field left out is 0.
NoDate == 0

\* f"{prefix}_{n:03d}": the prefix and the number decide the string.
MakeId(prefix, n) == <<prefix, n>>

\* The outcome of a call: a returned value or a raised exception.
Ret(v)   == [raised |-> FALSE, value |-> v]
Raise(e) == [raised |-> TRUE, value |-> e]

\* bcrypt.hashpw: the hash verifies exactly the password it was made from.
hash_password(password) == <<"$2b$", password>>

\* A stored password that is no bcrypt hash (an empty or plain string).
NotAHash == <<"", "">>

\* bcrypt.checkpw raises ValueError("Invalid salt") on a malformed hash;
\* verify_password has no handler around it.
verify_password(password, hashed_password) ==
    IF hashed_password[1] = "$2b$" THEN Ret(hashed_password[2] = password)
    ELSE Raise("ValueError")

\* First index of the record with this id, 0 when there is none (the linear
\* scans "for x in self.data[...]: if x['id'] == id").
RECURSIVE ScanFrom(_, _, _)
ScanFrom(s, id, i) ==
    IF i > Len(s) THEN 0
    ELSE IF s[i].id = id THEN i
    ELSE ScanFrom(s, id, i + 1)

IndexOf(s, id) == ScanFrom(s, id, 1)

GetById(s, id) == IF IndexOf(s, id) = 0 THEN None ELSE Some(s[IndexOf(s, id)])

\* "del lst[i]"
RemoveAt(s, i) == [k \in 1..(Len(s) - 1) |-> IF k < i THEN s[k] ELSE s[k + 1]]

Ids(s) == {s[i].id : i \in 1..Len(s)}

\* The request inputs: ids present in a collection and one that is not.
IdInputs(s, prefix) == Ids(s) \cup {MakeId(prefix, 0)}

-----------------------------------------------------------------------------
(* DataManager (utils/data_manager.py) *)

get_default_structure ==
    [users |-> <<>>, clients |-> <<>>, projects |-> <<>>, leads |-> <<>>,
     attendance |-> <<>>, tasks |-> <<>>, daily_otp |-> -1, daily_otp_date |-> 0]

create_user(d, role) ==
    [d EXCEPT !.users = Append(@,
        [id |-> MakeId(role, Len(d.users) + 1), role |-> role,
         status |-> "active", deleted_at |-> FALSE])]

get_user_by_id(d, id) == GetById(d.users, id)

delete_user(d, id) ==
    LET i == IndexOf(d.users, id) IN
    IF i = 0 THEN d
    ELSE [d EXCEPT !.users[i].status = "inactive", !.users[i].deleted_at = TRUE]

create_client(d, business_type) ==
    [d EXCEPT !.clients = Append(@,
        [id |-> MakeId("client", Len(d.clients) + 1),
         business_type |-> business_type,
         status |-> "active", deleted_at |-> FALSE])]

get_client_by_id(d, id) == GetById(d.clients, id)

delete_client(d, id) ==
    LET i == IndexOf(d.clients, id) IN
    IF i = 0 THEN d
    ELSE [d EXCEPT !.clients[i].status = "inactive", !.clients[i].deleted_at = TRUE]

IsActive(r) == r.status = "active"

get_all_clients(d) == SelectSeq(d.clients, IsActive)

create_project(d, data) ==
    [d EXCEPT !.projects = Append(@,
        [id |-> MakeId("project", Len(d.projects) + 1),
         type |-> data.type, client_id |-> data.client_id,
         description |-> data.description, status |-> "pending",
         start_date |-> Get(data, "start_date", NoDate),
         end_date |-> Get(data, "end_date", NoDate),
         budget |-> data.budget,
         assigned_employees |-> Get(data, "assigned_employees", {}),
         updated_at |-> 0, deleted_at |-> FALSE])]

get_project_by_id(d, id) == GetById(d.projects, id)

delete_project(d, id) ==
    LET i == IndexOf(d.projects, id) IN
    IF i = 0 THEN d
    ELSE [d EXCEPT !.projects[i].status = "deleted", !.projects[i].deleted_at = TRUE]

NotDeleted(r) == r.status # "deleted"

get_all_projects(d) == SelectSeq(d.projects, NotDeleted)

create_lead(d, business_type) ==
    [d EXCEPT !.leads = Append(@,
        [id |-> MakeId("lead", Len(d.leads) + 1),
         business_type |-> business_type,
         status |-> "new", deleted_at |-> FALSE])]

get_lead_by_id(d, id) == GetById(d.leads, id)

\* update_lead(lead_id, {'status': status})
update_lead(d, id, status) ==
    LET i == IndexOf(d.leads, id) IN
    IF i = 0 THEN d ELSE [d EXCEPT !.leads[i].status = status]

delete_lead(d, id) ==
    LET i == IndexOf(d.leads, id) IN
    IF i = 0 THEN d
    ELSE [d EXCEPT !.leads[i].status = "deleted", !.leads[i].deleted_at = TRUE]

create_attendance_record(d, data) ==
    [d EXCEPT !.attendance = Append(@,
        [id |-> MakeId("attendance", Len(d.attendance) + 1),
         employee_id |-> data.employee_id, date |-> data.date,
         check_in |-> data.check_in, check_out |-> data.check_out,
         status |-> "present"])]

delete_attendance(d, id) ==
    LET i == IndexOf(d.attendance, id) IN
    IF i = 0 THEN d ELSE [d EXCEPT !.attendance = RemoveAt(@, i)]

create_task(d) ==
    [d EXCEPT !.tasks = Append(@,
        [id |-> MakeId("task", Len(d.tasks) + 1), status |-> "pending"])]

\* The variant of delete_task that drops the last task when the id matches
\* none.
delete_task_or_last(d, id) ==
    IF IndexOf(d.tasks, id) = 0 /\ d.tasks # <<>>
    THEN [d EXCEPT !.tasks = RemoveAt(@, Len(@))]
    ELSE d

delete_task(d, id) ==
    LET i == IndexOf(d.tasks, id) IN
    IF i = 0 THEN d ELSE [d EXCEPT !.tasks = RemoveAt(@, i)]

-----------------------------------------------------------------------------
(* FirebaseDataManager (utils/firebase_data_manager.py) *)

fb_create_user(d, role) ==
    [d EXCEPT !.users = Append(@,
        [id |-> MakeId("user", Len(d.users) + 1), role |-> role,
         status |-> "active", deleted_at |-> FALSE])]

fb_delete_user(d, id) ==
    LET i == IndexOf(d.users, id) IN
    IF i = 0 THEN d ELSE [d EXCEPT !.users = RemoveAt(@, i)]

fb_create_client(d, business_type) ==
    [d EXCEPT !.clients = Append(@,
        [id |-> MakeId("client", Len(d.clients) + 1),
         business_type |-> business_type,
         status |-> "active", deleted_at |-> FALSE])]

fb_get_client_by_id(d, id) == GetById(d.clients, id)

fb_get_all_clients(d) == d.clients

fb_delete_client(d, id) ==
    LET i == IndexOf(d.clients, id) IN
    IF i = 0 THEN d ELSE [d EXCEPT !.clients = RemoveAt(@, i)]

\* ensure_admin_user, as initialize_default_data runs it on the empty document
ensure_admin_user(d) ==
    IF \E i \in 1..Len(d.users) : d.users[i].role = "admin" THEN d
    ELSE [d EXCEPT !.users = Append(@,
            [id |-> MakeId("admin", 1), name |-> "Siddhant_MD",
             email |-> "admin@trivantaedge.com",
             password |-> hash_password("As@102005"), role |-> "admin",
             status |-> "active", deleted_at |-> FALSE])]

fb_initialize_default_data == ensure_admin_user(get_default_structure)


-----------------------------------------------------------------------------
(* State after start-up: the API modules construct their DataManager on    *)
(* import (load_data writes the default document), then create_app builds  *)
(* the FirebaseDataManager and runs initialize_default_data, which saves.  *)

NoThread == [pc |-> "idle", id |-> None, found |-> FALSE]
NoHandle == [open |-> FALSE, buf |-> None, clobbered |-> FALSE]
Threads  == {"t1", "t2"}
Users    == {"u1", "u2"}

Call(op, inst, id, ok, ret) ==
    [op |-> op, inst |-> inst, id |-> id, ok |-> ok, ret |-> ret]

Init ==
    /\ dm = get_default_structure
    /\ fb = fb_initialize_default_data
    /\ disk = [doc |-> fb_initialize_default_data, torn |-> FALSE]
    /\ dm_auth = get_default_structure
    /\ reset_log = <<>>
    /\ last = Call("init", "", None, FALSE, "")
    /\ today = 1
    /\ otp_calls = <<>>
    /\ now = 0
    /\ cache = None
    /\ calls = <<>>
    /\ connected_users = [u \in {} |-> None]
    /\ notification_queue = <<>>
    /\ emitted = [u \in Users |-> <<>>]
    /\ sent = 0
    /\ sockets = {}
    /\ thr = [t \in Threads |-> NoThread]
    /\ fh = [t \in Threads |-> NoHandle]

\* save_data(): the whole document is rewritten (one request at a time).
save_data(d) == [doc |-> d, torn |-> FALSE]

TotalRecords(d) ==
    Len(d.users) + Len(d.clients) + Len(d.projects) + Len(d.leads)
        + Len(d.attendance) + Len(d.tasks)

Room(n) == TotalRecords(dm) + TotalRecords(fb) + n <= MaxRecords

LastOf(s) == s[Len(s)]

-----------------------------------------------------------------------------
(* Calls of the DataManager, one request at a time *)

\* A create_X call: the new document is saved and the record returned.
Created(op, d2, rec) ==
    /\ Room(1)
    /\ dm' = d2
    /\ disk' = save_data(d2)
    /\ last' = Call(op, "dm", rec.id, TRUE, "created")
    /\ UNCHANGED <<fb, dm_auth, reset_log, otpVars, anaVars, wsVars, thrVars>>

\* A delete_X call: saved only when the record was found.
Deleted(op, d2, id, found) ==
    /\ dm' = d2
    /\ disk' = IF found THEN save_data(d2) ELSE disk
    /\ last' = Call(op, "dm", id, found, IF found THEN "deleted" ELSE "absent")
    /\ UNCHANGED <<fb, dm_auth, reset_log, otpVars, anaVars, wsVars, thrVars>>

CreateUser ==
    \E role \in Roles :
        Created("create_user", create_user(dm, role),
                LastOf(create_user(dm, role).users))

DeleteUser ==
    \E id \in IdInputs(dm.users, "employee") :
        Deleted("delete_user", delete_user(dm, id), id, get_user_by_id(dm, id) # None)

CreateClient ==
    \E bt \in BusinessTypes :
        Created("create_client", create_client(dm, bt),
                LastOf(create_client(dm, bt).clients))

DeleteClient ==
    \E id \in IdInputs(dm.clients, "client") :
        Deleted("delete_client", delete_client(dm, id), id,
                get_client_by_id(dm, id) # None)

CreateLead ==
    \E bt \in BusinessTypes :
        Created("create_lead", create_lead(dm, bt), LastOf(create_lead(dm, bt).leads))

DeleteLead ==
    \E id \in IdInputs(dm.leads, "lead") :
        Deleted("delete_lead", delete_lead(dm, id), id, get_lead_by_id(dm, id) # None)

DeleteProject ==
    \E id \in IdInputs(dm.projects, "project") :
        Deleted("delete_project", delete_project(dm, id), id,
                get_project_by_id(dm, id) # None)

CreateTask ==
    Created("create_task", create_task(dm), LastOf(create_task(dm).tasks))

DeleteTask ==
    \E id \in IdInputs(dm.tasks, "task") :
        Deleted("delete_task", delete_task(dm, id), id, IndexOf(dm.tasks, id) # 0)

DeleteAttendance ==
    \E id \in IdInputs(dm.attendance, "attendance") :
        Deleted("delete_attendance", delete_attendance(dm, id), id,
                IndexOf(dm.attendance, id) # 0)

-----------------------------------------------------------------------------
(* Calls of the FirebaseDataManager (current_app.data_manager) *)

FbCreated(op, d2, rec) ==
    /\ Room(1)
    /\ fb' = d2
    /\ disk' = save_data(d2)
    /\ last' = Call(op, "fb", rec.id, TRUE, "created")
    /\ UNCHANGED <<dm, dm_auth, reset_log, otpVars, anaVars, wsVars, thrVars>>

FbDeleted(op, d2, id, found) ==
    /\ fb' = d2
    /\ disk' = IF found THEN save_data(d2) ELSE disk
    /\ last' = Call(op, "fb", id, found, IF found THEN "deleted" ELSE "absent")
    /\ UNCHANGED <<dm, dm_auth, reset_log, otpVars, anaVars, wsVars, thrVars>>

FbCreateUser ==
    \E role \in Roles :
        FbCreated("create_user", fb_create_user(fb, role),
                  LastOf(fb_create_user(fb, role).users))

FbDeleteUser ==
    \E id \in IdInputs(fb.users, "user") :
        FbDeleted("delete_user", fb_delete_user(fb, id), id, IndexOf(fb.users, id) # 0)

FbCreateClient ==
    \E bt \in BusinessTypes :
        FbCreated("create_client", fb_create_client(fb, bt),
                  LastOf(fb_create_client(fb, bt).clients))

FbDeleteClient ==
    \E id \in IdInputs(fb.clients, "client") :
        FbDeleted("delete_client", fb_delete_client(fb, id), id,
                  IndexOf(fb.clients, id) # 0)


-----------------------------------------------------------------------------
(* Requests that create projects (api/projects.py, routes/admin.py) *)

\* The budget field as the form or the JSON body carries it.
BudgetInputs == {"", "50000"}

\* float(x): the number, or None where float raises ValueError.
parse_float(x) ==
    IF x = "0" THEN Some(0)
    ELSE IF x = "50000" THEN Some(50000)
    ELSE None

\* POST /projects: float(data.get('budget', 0)) raises before anything is
\* created, and the handler answers 500.
CreateProject ==
    \E type \in ProjectTypes, cid \in IdInputs(dm.clients, "client"),
       b \in BudgetInputs :
        IF parse_float(b) = None
        THEN /\ last' = Call("create_project", "dm", None, FALSE, "error")
             /\ UNCHANGED <<repoVars, otpVars, anaVars, wsVars, thrVars>>
        ELSE LET d2 == create_project(dm,
                         [type |-> type, client_id |-> cid, description |-> "",
                          budget |-> parse_float(b)[1]])
             IN Created("create_project", d2, LastOf(d2.projects))

\* POST /admin/leads/<lead_id>/convert
convert_lead(d, lead_id, project_type, budget) ==
    LET lead == get_lead_by_id(d, lead_id)
        d1   == create_client(d, lead[1].business_type)
        new_client == LastOf(d1.clients)
        d2   == create_project(d1,
                    [type |-> project_type, client_id |-> new_client.id,
                     description |-> "", budget |-> parse_float(budget)[1]])
        d3   == update_lead(d2, lead_id, "converted")
    IN  IF lead = None THEN [doc |-> d, ret |-> "not_found"]
        ELSE IF parse_float(budget) = None THEN [doc |-> d1, ret |-> "error"]
        ELSE [doc |-> d3, ret |-> "converted"]

ConvertLead ==
    \E lead_id \in IdInputs(dm.leads, "lead"), type \in ProjectTypes,
       b \in BudgetInputs :
        LET r == convert_lead(dm, lead_id, type, b) IN
        /\ Room(1)
        /\ dm' = r.doc
        /\ disk' = IF r.ret = "not_found" THEN disk ELSE save_data(r.doc)
        /\ last' = Call("convert_lead", "dm", lead_id, r.ret = "converted", r.ret)
        /\ UNCHANGED <<fb, dm_auth, reset_log, otpVars, anaVars, wsVars, thrVars>>

\* employee check-in and the like reach create_attendance_record through the
\* routes below; here it is the repository call alone.
CreateAttendance ==
    \E e \in {MakeId("employee", 1)}, day \in {today} :
        LET d2 == create_attendance_record(dm,
                    [employee_id |-> e, date |-> day, check_in |-> TRUE,
                     check_out |-> FALSE])
        IN Created("create_attendance_record", d2, LastOf(d2.attendance))

NextRepo ==
    \/ CreateUser \/ DeleteUser \/ CreateClient \/ DeleteClient
    \/ CreateLead \/ DeleteLead \/ CreateProject \/ DeleteProject
    \/ CreateTask \/ DeleteTask \/ CreateAttendance \/ DeleteAttendance
    \/ FbCreateUser \/ FbDeleteUser \/ FbCreateClient \/ FbDeleteClient

SpecRepo == Init /\ [][NextRepo]_vars

NextConvert ==
    \/ CreateLead \/ DeleteLead \/ ConvertLead \/ DeleteClient \/ DeleteProject

SpecConvert == Init /\ [][NextConvert]_vars


-----------------------------------------------------------------------------
(* Claims about the repository *)

UniqueIds(s) == \A i, j \in 1..Len(s) : i # j => s[i].id # s[j].id

AllUnique(d) ==
    /\ UniqueIds(d.users) /\ UniqueIds(d.clients) /\ UniqueIds(d.projects)
    /\ UniqueIds(d.leads) /\ UniqueIds(d.attendance) /\ UniqueIds(d.tasks)

\* C2: in every reachable state no two records of one collection share an id,
\* in the DataManager's document and in the FirebaseDataManager's, whatever
\* create_X and delete_X calls have run (hard deletes of tasks and attendance
\* records included).
C2_UniqueIds == AllUnique(dm) /\ AllUnique(fb)

\* C3: right after delete_client(id) has found and deleted a client,
\* get_all_clients() holds no client with that id, and get_client_by_id(id)
\* still returns a record, whose status is inactive.
C3_SoftDeleteClient ==
    (last.op = "delete_client" /\ last.ok) =>
        LET all == IF last.inst = "dm" THEN get_all_clients(dm)
                   ELSE fb_get_all_clients(fb)
            got == IF last.inst = "dm" THEN get_client_by_id(dm, last.id)
                   ELSE fb_get_client_by_id(fb, last.id)
        IN  /\ \A i \in 1..Len(all) : all[i].id # last.id
            /\ got # None
            /\ got[1].status = "inactive"

SoftDeletes == {"delete_user", "delete_client", "delete_project", "delete_lead"}

\* The collection a delete_X call works on.
CollectionOf(d, op) ==
    IF op = "delete_user" THEN d.users
    ELSE IF op = "delete_client" THEN d.clients
    ELSE IF op = "delete_project" THEN d.projects
    ELSE d.leads

\* r2 is r1 with at most its status and deleted_at changed.
StatusFlip(r1, r2) ==
    [r1 EXCEPT !.status = r2.status, !.deleted_at = r2.deleted_at] = r2

Shrinks(d1, d2) ==
    \/ Len(d2.users) < Len(d1.users)       \/ Len(d2.clients) < Len(d1.clients)
    \/ Len(d2.projects) < Len(d1.projects) \/ Len(d2.leads) < Len(d1.leads)
    \/ Len(d2.attendance) < Len(d1.attendance)
    \/ Len(d2.tasks) < Len(d1.tasks)

\* C4: a delete of a user, client, project or lead keeps the collection's
\* records in their order and changes only the target's status and
\* deleted_at; a collection loses a record only in delete_task and
\* delete_attendance.
C4_DeleteIsStatusFlip ==
    [][ /\ (last'.op \in SoftDeletes /\ last'.ok) =>
              LET before == CollectionOf(IF last'.inst = "dm" THEN dm ELSE fb, last'.op)
                  after  == CollectionOf(IF last'.inst = "dm" THEN dm' ELSE fb', last'.op)
              IN  /\ Len(after) = Len(before)
                  /\ \A i \in 1..Len(before) :
                        \/ after[i] = before[i]
                        \/ /\ before[i].id = last'.id
                           /\ StatusFlip(before[i], after[i])
        /\ (Shrinks(dm, dm') \/ Shrinks(fb, fb')) =>
              last'.op \in {"delete_task", "delete_attendance"}
      ]_vars

\* C5: convert_lead on an existing lead adds exactly one client and exactly
\* one project, the new project's client_id is the new client's id, the
\* lead's status becomes converted, and every other client, project and lead
\* is unchanged.
C5_ConvertLead ==
    [][ (last'.op = "convert_lead" /\ get_lead_by_id(dm, last'.id) # None) =>
            LET i == IndexOf(dm.leads, last'.id) IN
            /\ Len(dm'.clients) = Len(dm.clients) + 1
            /\ Len(dm'.projects) = Len(dm.projects) + 1
            /\ SubSeq(dm'.clients, 1, Len(dm.clients)) = dm.clients
            /\ SubSeq(dm'.projects, 1, Len(dm.projects)) = dm.projects
            /\ LastOf(dm'.projects).client_id = LastOf(dm'.clients).id
            /\ dm'.leads = [dm.leads EXCEPT ![i].status = "converted"]
      ]_vars

-----------------------------------------------------------------------------
(* Daily OTP and attendance (utils/data_manager.py, routes/employee.py,
   routes/manager.py, routes/admin.py) *)

\* secrets.randbelow draws from 0..OtpSpace-1; dates are 1..MaxDay.
OtpSpace == 2
MaxDay == 2

OtpValues == 0..(OtpSpace - 1)

Employees == {MakeId("employee", 1), MakeId("employee", 2)}

set_daily_otp(d, day, otp) ==
    [d EXCEPT !.daily_otp = otp, !.daily_otp_date = day]

generate_daily_otp(d, day, draw) == set_daily_otp(d, day, draw)

\* A get_daily_otp that draws a new OTP on every call.
get_daily_otp_redraws(d, day, draw) ==
    [doc |-> generate_daily_otp(d, day, draw), ret |-> draw, drew |-> TRUE]

\* The OTP of the day: a stored OTP of another date is replaced by a new draw.
get_daily_otp(d, day, draw) ==
    IF d.daily_otp_date # day
    THEN [doc |-> generate_daily_otp(d, day, draw), ret |-> draw, drew |-> TRUE]
    ELSE [doc |-> d, ret |-> d.daily_otp, drew |-> FALSE]

verify_otp(d, day, draw, otp) ==
    LET g == get_daily_otp(d, day, draw)
    IN  [doc |-> g.doc, ok |-> (otp = g.ret), got |-> g]

\* The last three OTP events (get_daily_otp and generate_daily_otp calls).
OtpLog(s, e) == IF Len(s) < 3 THEN Append(s, e) ELSE Append(Tail(s), e)

OtpEvent(op, day, value, drew) ==
    [op |-> op, date |-> day, value |-> value, drew |-> drew]

GotOtp(g) == OtpLog(otp_calls, OtpEvent("get", today, g.ret, g.drew))

\* GET /manager/attendance and POST /manager/attendance/generate-otp.
GenerateOtp ==
    \E draw \in OtpValues :
        /\ dm' = generate_daily_otp(dm, today, draw)
        /\ disk' = save_data(dm')
        /\ otp_calls' = OtpLog(otp_calls, OtpEvent("generate", today, draw, TRUE))
        /\ last' = Call("generate_daily_otp", "dm", None, TRUE, "generated")
        /\ UNCHANGED <<fb, dm_auth, reset_log, today, anaVars, wsVars, thrVars>>

GetDailyOtp ==
    \E draw \in OtpValues :
        LET g == get_daily_otp(dm, today, draw) IN
        /\ dm' = g.doc
        /\ disk' = IF g.drew THEN save_data(g.doc) ELSE disk
        /\ otp_calls' = GotOtp(g)
        /\ last' = Call("get_daily_otp", "dm", None, TRUE, "got")
        /\ UNCHANGED <<fb, dm_auth, reset_log, today, anaVars, wsVars, thrVars>>

\* Midnight passes.
NextDay ==
    /\ today < MaxDay
    /\ today' = today + 1
    /\ last' = Call("next_day", "", None, TRUE, "")
    /\ UNCHANGED <<repoVars, otp_calls, anaVars, wsVars, thrVars>>

HasRecord(r, e, day) == r.employee_id = e /\ r.date = day

RECURSIVE FirstRecord(_, _, _, _)
\* Index of the first attendance record of e on day, from i on; 0 when none.
FirstRecord(s, e, day, i) ==
    IF i > Len(s) THEN 0
    ELSE IF HasRecord(s[i], e, day) THEN i
    ELSE FirstRecord(s, e, day, i + 1)

\* POST /employee/attendance/check-in.
check_in(d, day, draw, e, otp) ==
    LET v == verify_otp(d, day, draw, otp)
    IN  IF v.ok
        THEN [doc |-> create_attendance_record(v.doc,
                        [employee_id |-> e, date |-> day, check_in |-> TRUE,
                         check_out |-> FALSE]),
              ret |-> "checked_in", got |-> v.got]
        ELSE [doc |-> v.doc, ret |-> "invalid_otp", got |-> v.got]

\* POST /employee/attendance/check-out.
check_out(d, day, draw, e, otp) ==
    LET v == verify_otp(d, day, draw, otp)
        i == FirstRecord(v.doc.attendance, e, day, 1)
    IN  IF ~v.ok THEN [doc |-> v.doc, ret |-> "invalid_otp", got |-> v.got]
        ELSE IF i = 0 THEN [doc |-> v.doc, ret |-> "no_record", got |-> v.got]
        ELSE [doc |-> [v.doc EXCEPT !.attendance[i].check_out = TRUE],
              ret |-> "checked_out", got |-> v.got]

\* POST /manager/attendance/verify; action is check_in or check_out.
verify_attendance(d, day, draw, e, otp, action) ==
    LET v == verify_otp(d, day, draw, otp)
    IN  IF v.ok
        THEN [doc |-> create_attendance_record(v.doc,
                        [employee_id |-> e, date |-> day,
                         check_in |-> (action = "check_in"),
                         check_out |-> (action = "check_out")]),
              ret |-> action, got |-> v.got]
        ELSE [doc |-> v.doc, ret |-> "invalid_otp", got |-> v.got]

RECURSIVE bulk_attendance(_, _, _, _)
\* POST /admin/attendance/bulk; action is mark_present or mark_absent.
bulk_attendance(d, day, ids, action) ==
    IF ids = <<>> THEN d
    ELSE LET e == Head(ids)
             i == FirstRecord(d.attendance, e, day, 1)
             status == IF action = "mark_present" THEN "present" ELSE "absent"
             d2 == IF i = 0
                   THEN create_attendance_record(d,
                            [employee_id |-> e, date |-> day,
                             check_in |-> (action = "mark_present"),
                             check_out |-> FALSE])
                   ELSE [d EXCEPT !.attendance[i].status = status]
         IN  bulk_attendance(d2, day, Tail(ids), action)

\* A route that verified an OTP: r is the handler's result.
Attended(op, e, r, added) ==
    /\ Room(added)
    /\ dm' = r.doc
    /\ disk' = IF r.doc # dm THEN save_data(r.doc) ELSE disk
    /\ otp_calls' = GotOtp(r.got)
    /\ last' = Call(op, "dm", e, r.ret # "invalid_otp" /\ r.ret # "no_record", r.ret)
    /\ UNCHANGED <<fb, dm_auth, reset_log, today, anaVars, wsVars, thrVars>>

CheckIn ==
    \E e \in Employees, otp \in OtpValues, draw \in OtpValues :
        Attended("check_in", e, check_in(dm, today, draw, e, otp), 1)

CheckOut ==
    \E e \in Employees, otp \in OtpValues, draw \in OtpValues :
        Attended("check_out", e, check_out(dm, today, draw, e, otp), 0)

VerifyAttendance ==
    \E e \in Employees, otp \in OtpValues, draw \in OtpValues,
       action \in {"check_in", "check_out"} :
        Attended("verify_attendance", e,
                 verify_attendance(dm, today, draw, e, otp, action), 1)

BulkInputs ==
    {<<e>> : e \in Employees} \cup
    {<<MakeId("employee", 1), MakeId("employee", 2)>>}

BulkAttendance ==
    \E ids \in BulkInputs, action \in {"mark_present", "mark_absent"} :
        /\ Room(Len(ids))
        /\ dm' = bulk_attendance(dm, today, ids, action)
        /\ disk' = save_data(dm')
        /\ last' = Call("bulk_attendance", "dm", Head(ids), TRUE, action)
        /\ UNCHANGED <<fb, dm_auth, reset_log, otpVars, anaVars, wsVars, thrVars>>

NextOtp == GetDailyOtp \/ GenerateOtp \/ NextDay

SpecOtp == Init /\ [][NextOtp]_vars

NextAttendance ==
    \/ CheckIn \/ CheckOut \/ VerifyAttendance \/ BulkAttendance
    \/ GenerateOtp \/ NextDay

SpecAttendance == Init /\ [][NextAttendance]_vars

-----------------------------------------------------------------------------
(* Claims about attendance and the daily OTP *)

AtMostOnePerDay(s) ==
    \A i, j \in 1..Len(s) :
        (i # j) => ~(s[i].employee_id = s[j].employee_id /\ s[i].date = s[j].date)

Gets(i, j) == otp_calls[i].op = "get" /\ otp_calls[j].op = "get"

-----------------------------------------------------------------------------
(* AnalyticsEngine (utils/analytics_engine.py, api/analytics.py) *)

\* ANALYTICS_CACHE_DURATION, in seconds.
cache_duration == 300

\* The clock runs from 0 to MaxTime in steps of TimeSteps seconds.
MaxTime == 300
TimeSteps == {150}

RECURSIVE SumBudget(_, _)
\* sum(p.get('budget', 0) for p in projects if p.get('type') in types)
SumBudget(projects, types) ==
    IF projects = <<>> THEN 0
    ELSE (IF Head(projects).type \in types THEN Head(projects).budget ELSE 0)
            + SumBudget(Tail(projects), types)

get_financial_analytics(d) ==
    LET projects == get_all_projects(d)
    IN  [total_revenue |-> SumBudget(projects, ProjectTypes),
         installation_revenue |-> SumBudget(projects, {"installation"}),
         manufacturing_revenue |-> SumBudget(projects, {"manufacturing"})]

get_overview_metrics(d) ==
    [total_projects |-> Len(get_all_projects(d)),
     total_clients |-> Len(get_all_clients(d))]

\* The payload get_comprehensive_analytics builds on a cache miss.
compute_analytics(d) ==
    [overview |-> get_overview_metrics(d), financial |-> get_financial_analytics(d)]

\* A cache lookup that still serves an entry of age cache_duration.
get_cached_data_inclusive(c, t) ==
    IF c # None /\ t - c[1].timestamp <= cache_duration
    THEN [cache |-> c, data |-> Some(c[1].data)]
    ELSE [cache |-> None, data |-> None]

\* The cached payload while now - timestamp < cache_duration; an older entry
\* is dropped.
get_cached_data(c, t) ==
    IF c # None /\ t - c[1].timestamp < cache_duration
    THEN [cache |-> c, data |-> Some(c[1].data)]
    ELSE [cache |-> None, data |-> None]

cache_data(data, t) == Some([data |-> data, timestamp |-> t])

get_comprehensive_analytics(c, d, t) ==
    LET g == get_cached_data(c, t)
    IN  IF g.data # None
        THEN [cache |-> g.cache, ret |-> g.data[1], hit |-> TRUE,
              computed_at |-> c[1].timestamp]
        ELSE [cache |-> cache_data(compute_analytics(d), t),
              ret |-> compute_analytics(d), hit |-> FALSE, computed_at |-> t]

clear_cache == None

\* calls holds the latest get_comprehensive_analytics call. stale tells that
\* the payload returned is not what the repository holds at the time of the
\* call, cleared that clear_cache has run since the call, expired that the
\* call found a cache entry older than the window, after_stale_hit that the
\* call before was served a payload the repository had moved away from.
AnaCall(r) ==
    [computed_at |-> r.computed_at, payload |-> r.ret,
     hit |-> r.hit, stale |-> r.ret # compute_analytics(dm), cleared |-> FALSE,
     expired |-> cache # None /\ now - cache[1].timestamp >= cache_duration,
     after_stale_hit |-> calls # <<>> /\ calls[1].hit /\ calls[1].stale]

Analysed(op) ==
    LET r == get_comprehensive_analytics(cache, dm, now) IN
    /\ cache' = r.cache
    /\ calls' = <<AnaCall(r)>>
    /\ last' = Call(op, "dm", None, TRUE, IF r.hit THEN "hit" ELSE "miss")
    /\ UNCHANGED <<repoVars, otpVars, now, wsVars, thrVars>>

\* GET /analytics/comprehensive
GetComprehensive == Analysed("api_get_comprehensive_analytics")

\* GET /analytics/financial: the financial part of the comprehensive payload.
GetFinancial == Analysed("api_get_financial_analytics")

\* POST /analytics/cache/clear
ClearCache ==
    /\ cache' = clear_cache
    /\ calls' = [i \in 1..Len(calls) |-> [calls[i] EXCEPT !.cleared = TRUE]]
    /\ last' = Call("api_clear_analytics_cache", "dm", None, TRUE, "cleared")
    /\ UNCHANGED <<repoVars, otpVars, now, wsVars, thrVars>>

\* Time passes.
Tick ==
    \E dt \in TimeSteps :
        /\ now + dt <= MaxTime
        /\ now' = now + dt
        /\ last' = Call("tick", "", None, TRUE, "")
        /\ UNCHANGED <<repoVars, otpVars, cache, calls, wsVars, thrVars>>

NextAnalytics ==
    \/ CreateProject \/ DeleteProject
    \/ GetComprehensive \/ GetFinancial \/ ClearCache \/ Tick

SpecAnalytics == Init /\ [][NextAnalytics]_vars

-----------------------------------------------------------------------------
(* Claims about the analytics cache *)

AnalyticsCalls == {"api_get_comprehensive_analytics", "api_get_financial_analytics"}

\* C8: a get_comprehensive_analytics call made within the cache window of the
\* call before it returns the identical payload, whatever happened to the
\* repository in between, and a call made when the window has expired
\* (now - computed_at >= cache_duration) recomputes the payload from the
\* current repository.
C8_CacheWindow ==
    [][ (last'.op \in AnalyticsCalls /\ calls # <<>>) =>
            /\ (now' - calls[1].computed_at < cache_duration)
                  => calls'[1].payload = calls[1].payload
            /\ (now' - calls[1].computed_at >= cache_duration)
                  => /\ ~calls'[1].hit
                     /\ calls'[1].payload = compute_analytics(dm')
      ]_vars

\* C8 as the code has it: a call made within the cache window of the call
\* before it, with no clear_cache between the two, is a cache hit and returns
\* the identical payload; a call made after the window has expired or after a
\* clear_cache is a miss; and every miss returns the payload computed from
\* the current repository and caches it with the time of the call.
C8_CacheWindowAmended ==
    [][ last'.op \in AnalyticsCalls =>
            /\ calls # <<>> =>
                  IF ~calls[1].cleared
                        /\ now' - calls[1].computed_at < cache_duration
                  THEN /\ calls'[1].hit
                       /\ calls'[1].payload = calls[1].payload
                       /\ calls'[1].computed_at = calls[1].computed_at
                  ELSE ~calls'[1].hit
            /\ ~calls'[1].hit =>
                  /\ calls'[1].payload = compute_analytics(dm')
                  /\ cache' = cache_data(compute_analytics(dm'), now')
      ]_vars

\* A call found the window expired and recomputed, after the call before it
\* had been served the cached payload although the repository had changed.
C8_Witness ==
    /\ last.op \in AnalyticsCalls
    /\ calls # <<>>
    /\ calls[1].expired /\ ~calls[1].hit /\ ~calls[1].stale
    /\ calls[1].after_stale_hit

\* C9: when create_project has stored an installation project of budget b,
\* the financial analytics call that follows it reports
\* installation_revenue >= b.
C9_RevenueAfterCreate ==
    [][ ( /\ last.op = "create_project" /\ last.ok
          /\ LastOf(dm.projects).type = "installation"
          /\ last'.op = "api_get_financial_analytics" )
            => calls'[1].payload.financial.installation_revenue
                    >= LastOf(dm.projects).budget
      ]_vars

-----------------------------------------------------------------------------
(* Concurrent update_project calls (api/projects.py, utils/data_manager.py).
   Flask serves each request in a thread of its own; the requests share the
   DataManager and the data file, and nothing locks either. *)

\* The disjoint fields the two requests set.
Updates ==
    [t1 |-> [field |-> "description", value |-> "revised"],
     t2 |-> [field |-> "status", value |-> "in_progress"]]

\* project.update(updates); project['updated_at'] = now
apply_updates(d, id, u) ==
    LET i == IndexOf(d.projects, id) IN
    [d EXCEPT !.projects[i] =
        [[@ EXCEPT ![u.field] = u.value] EXCEPT !.updated_at = @ + 1]]

\* update_project with save_data as one uninterrupted step.
update_project(d, id, u) ==
    IF get_project_by_id(d, id) = None THEN d ELSE apply_updates(d, id, u)

AllIdle == \A t \in Threads : thr[t].pc = "idle"

\* PUT /projects/<project_id> arrives.
UpdBegin(t) ==
    \E id \in IdInputs(dm.projects, "project") :
        /\ thr[t].pc = "idle"
        /\ dm.projects # <<>>
        /\ thr' = [thr EXCEPT ![t] = [pc |-> "lookup", id |-> id, found |-> FALSE]]
        /\ UNCHANGED <<repoVars, last, otpVars, anaVars, wsVars, fh>>

\* project = self.get_project_by_id(project_id)
UpdLookup(t) ==
    /\ thr[t].pc = "lookup"
    /\ LET found == get_project_by_id(dm, thr[t].id) # None IN
       /\ thr' = [thr EXCEPT ![t].found = found,
                             ![t].pc = IF found THEN "update" ELSE "returned"]
       /\ last' = IF found THEN last
                  ELSE Call("update_project", "dm", thr[t].id, FALSE, "not_found")
    /\ UNCHANGED <<repoVars, otpVars, anaVars, wsVars, fh>>

UpdApply(t) ==
    /\ thr[t].pc = "update"
    /\ dm' = apply_updates(dm, thr[t].id, Updates[t])
    /\ thr' = [thr EXCEPT ![t].pc = "open"]
    /\ UNCHANGED <<fb, dm_auth, reset_log, disk, last, otpVars, anaVars, wsVars, fh>>

\* open(self.data_file, 'w') truncates the file.
UpdOpen(t) ==
    /\ thr[t].pc = "open"
    /\ fh' = [fh EXCEPT ![t] = [open |-> TRUE, buf |-> None, clobbered |-> FALSE]]
    /\ disk' = [disk EXCEPT !.torn = TRUE]
    /\ thr' = [thr EXCEPT ![t].pc = "dump"]
    /\ UNCHANGED <<dm, dm_auth, reset_log, fb, last, otpVars, anaVars, wsVars>>

\* json.dump(self.data, f) serialises the document into the file's buffer.
UpdDump(t) ==
    /\ thr[t].pc = "dump"
    /\ fh' = [fh EXCEPT ![t].buf = Some(dm)]
    /\ thr' = [thr EXCEPT ![t].pc = "close"]
    /\ UNCHANGED <<repoVars, last, otpVars, anaVars, wsVars>>

\* Leaving the with block flushes the buffer at offset 0 and closes. Over what
\* another handle has flushed since this one was opened, the bytes either
\* replace the other document or, being fewer, leave its tail behind.
UpdClose(t) ==
    /\ thr[t].pc = "close"
    /\ \E torn \in (IF fh[t].clobbered THEN BOOLEAN ELSE {FALSE}) :
          disk' = [doc |-> fh[t].buf[1], torn |-> torn]
    /\ fh' = [u \in Threads |->
                IF u = t THEN NoHandle
                ELSE IF fh[u].open THEN [fh[u] EXCEPT !.clobbered = TRUE]
                ELSE fh[u]]
    /\ thr' = [thr EXCEPT ![t].pc = "returned"]
    /\ last' = Call("update_project", "dm", thr[t].id, TRUE, "updated")
    /\ UNCHANGED <<dm, dm_auth, reset_log, fb, otpVars, anaVars, wsVars>>

NextUpd ==
    \/ (AllIdle /\ CreateProject)
    \/ \E t \in Threads :
          UpdBegin(t) \/ UpdLookup(t) \/ UpdApply(t) \/ UpdOpen(t)
              \/ UpdDump(t) \/ UpdClose(t)

SpecUpd == Init /\ [][NextUpd]_vars

HasBoth(p) ==
    \A t \in Threads : p[Updates[t].field] = Updates[t].value

\* C1: once two concurrent update_project calls on the same project id,
\* setting disjoint fields, have both returned, the project carries both
\* calls' values in memory and in the persisted JSON document.
C1_NoLostUpdate ==
    ( /\ \A t \in Threads : thr[t].pc = "returned" /\ thr[t].found
      /\ thr["t1"].id = thr["t2"].id )
        => LET i == IndexOf(dm.projects, thr["t1"].id) IN
           /\ HasBoth(dm.projects[i])
           /\ ~disk.torn
           /\ Len(disk.doc.projects) >= i
           /\ HasBoth(disk.doc.projects[i])

\* The in-memory half of C1 on its own.
C1_MemoryKeepsBoth ==
    ( /\ \A t \in Threads : thr[t].pc = "returned" /\ thr[t].found
      /\ thr["t1"].id = thr["t2"].id )
        => HasBoth(dm.projects[IndexOf(dm.projects, thr["t1"].id)])

-----------------------------------------------------------------------------
(* WebSocketManager (utils/websocket_manager.py), one event at a time *)

\* cleanup_old_notifications(max_age_hours = 24)
max_age_hours == 24

MaxSent == 3
MaxClock == 86400
ClockSteps == {43200}

Sids == {"s1", "s2"}

\* The manager's state as one value.
WsState ==
    [connected_users |-> connected_users,
     notification_queue |-> notification_queue, emitted |-> emitted]

QueuedFor(q, u) == SelectSeq(q, LAMBDA e : e.user_id = u)

QueuedForOthers(q, u) == SelectSeq(q, LAMBDA e : e.user_id # u)

Notifications(q) == [i \in 1..Len(q) |-> q[i].notification]

\* emit to room user_<id> when the user is registered, else queue.
send_notification(w, u, n, t) ==
    IF u \in DOMAIN w.connected_users
    THEN [w EXCEPT !.emitted[u] = Append(@, n)]
    ELSE [w EXCEPT !.notification_queue =
                Append(@, [user_id |-> u, notification |-> n, timestamp |-> t])]

RECURSIVE send_each(_, _, _, _)
\* for notification in pending: self.send_notification(user_id, ...)
send_each(w, u, pending, t) ==
    IF pending = <<>> THEN w
    ELSE send_each(send_notification(w, u, Head(pending).notification, t),
                   u, Tail(pending), t)

\* A flush that empties the whole queue.
send_pending_notifications_all(w, u, t) ==
    [send_each(w, u, QueuedFor(w.notification_queue, u), t)
        EXCEPT !.notification_queue = <<>>]

send_pending_notifications(w, u, t) ==
    LET w2 == send_each(w, u, QueuedFor(w.notification_queue, u), t)
    IN  [w2 EXCEPT !.notification_queue = QueuedForOthers(w2.notification_queue, u)]

\* The connect handler: register, then flush; nothing without user_id and role.
handle_connect(w, u, role, sid, t) ==
    IF u # "" /\ role # ""
    THEN send_pending_notifications(
            [w EXCEPT !.connected_users =
                [x \in (DOMAIN w.connected_users) \cup {u} |->
                    IF x = u THEN [sid |-> sid, role |-> role]
                    ELSE w.connected_users[x]]],
            u, t)
    ELSE w

\* The disconnect handler: the user registered under this sid is removed.
handle_disconnect(w, sid) ==
    LET found == {x \in DOMAIN w.connected_users : w.connected_users[x].sid = sid}
    IN  [w EXCEPT !.connected_users =
            [x \in (DOMAIN w.connected_users) \ found |-> w.connected_users[x]]]

cleanup_old_notifications(w, t, hours) ==
    [w EXCEPT !.notification_queue =
        SelectSeq(@, LAMBDA e : e.timestamp > t - hours * 3600)]

\* The manager's state after a handler has run.
Handled(w) ==
    /\ connected_users' = w.connected_users
    /\ notification_queue' = w.notification_queue
    /\ emitted' = w.emitted

\* A client opens a connection with user_id and role as query parameters.
Connect ==
    \E u \in Users, role \in {"", "employee"},
       sid \in Sids \ {s.sid : s \in sockets} :
        /\ Handled(handle_connect(WsState, u, role, sid, now))
        /\ sockets' = sockets \cup {[sid |-> sid, user_id |-> u, role |-> role]}
        /\ last' = Call("connect", "ws", u, role # "",
                        IF role # "" THEN Len(QueuedFor(notification_queue, u))
                        ELSE 0)
        /\ UNCHANGED <<repoVars, otpVars, anaVars, sent, thrVars>>

Disconnect ==
    \E s \in sockets :
        /\ Handled(handle_disconnect(WsState, s.sid))
        /\ sockets' = sockets \ {s}
        /\ last' = Call("disconnect", "ws", s.user_id, TRUE, "")
        /\ UNCHANGED <<repoVars, otpVars, anaVars, sent, thrVars>>

\* A request handler calls send_notification(user_id, notification).
SendNotification ==
    \E u \in Users :
        /\ sent < MaxSent
        /\ sent' = sent + 1
        /\ Handled(send_notification(WsState, u, sent + 1, now))
        /\ last' = Call("send_notification", "ws", u, TRUE,
                        IF u \in DOMAIN connected_users THEN "emitted" ELSE "queued")
        /\ UNCHANGED <<repoVars, otpVars, anaVars, sockets, thrVars>>

\* The hourly cleanup task wakes up.
Sweep ==
    /\ Handled(cleanup_old_notifications(WsState, now, max_age_hours))
    /\ last' = Call("cleanup_old_notifications", "ws", None, TRUE, "")
    /\ UNCHANGED <<repoVars, otpVars, anaVars, sent, sockets, thrVars>>

\* Half a day passes.
Elapse ==
    \E dt \in ClockSteps :
        /\ now + dt <= MaxClock
        /\ now' = now + dt
        /\ last' = Call("elapse", "", None, TRUE, "")
        /\ UNCHANGED <<repoVars, otpVars, cache, calls, wsVars, thrVars>>

NextWS == Connect \/ Disconnect \/ SendNotification \/ Sweep \/ Elapse

SpecWS == Init /\ [][NextWS]_vars

-----------------------------------------------------------------------------
(* Authentication (utils/security.py, authenticate_user of both managers)   *)

Emails    == {"a@x.com", "b@x.com"}
Passwords == {"pw1", "pw2"}

\* DataManager.create_user with the whole user_data of the request.
create_user_data(d, user_data) ==
    [d EXCEPT !.users = Append(@,
        [id |-> MakeId(user_data.role, Len(d.users) + 1),
         name |-> user_data.name, email |-> user_data.email,
         password |-> user_data.password, role |-> user_data.role,
         status |-> "active", deleted_at |-> FALSE])]

\* "for user in self.data['users']": the first active record with this
\* email whose password verifies; an exception of verify_password propagates.
RECURSIVE AuthScan(_, _, _, _)
AuthScan(us, email, password, i) ==
    IF i > Len(us) THEN Ret(None)
    ELSE IF us[i].email = email /\ us[i].status = "active"
    THEN LET v == verify_password(password, us[i].password) IN
         IF v.raised THEN v
         ELSE IF v.value THEN Ret(Some(us[i]))
         ELSE AuthScan(us, email, password, i + 1)
    ELSE AuthScan(us, email, password, i + 1)

authenticate_user(d, email, password) == AuthScan(d.users, email, password, 1)

\* FirebaseDataManager.get_user_by_email: the first record with this email.
RECURSIVE EmailScan(_, _, _)
EmailScan(us, email, i) ==
    IF i > Len(us) THEN None
    ELSE IF us[i].email = email THEN Some(us[i])
    ELSE EmailScan(us, email, i + 1)

fb_get_user_by_email(d, email) == EmailScan(d.users, email, 1)

\* FirebaseDataManager.authenticate_user: no status test; every exception
\* is caught and answered with None.
fb_authenticate_user(d, email, password) ==
    LET user == fb_get_user_by_email(d, email) IN
    IF user = None THEN Ret(None)
    ELSE LET v == verify_password(password, user[1].password) IN
         IF v.raised THEN Ret(None)
         ELSE IF v.value THEN Ret(user)
         ELSE Ret(None)

\* The record of an authenticate_user call.
AuthCall(inst, email, password, r) ==
    [op |-> "authenticate_user", inst |-> inst, id |-> None,
     ok |-> (~r.raised /\ r.value # None), ret |-> r,
     email |-> email, password |-> password]

\* POST /api/users: the password is hashed, the email is not looked up.
ApiCreateUser ==
    \E email \in Emails, password \in Passwords :
        LET d2 == create_user_data(dm,
                      [name |-> email, email |-> email, role |-> "employee",
                       password |-> hash_password(password)]) IN
        Created("create_user", d2, LastOf(d2.users))

\* A FirebaseDataManager is constructed (test_credentials.py,
\* reset_user_passwords.py): load_data reads the shared document.
FbLoad ==
    /\ ~disk.torn
    /\ fb' = disk.doc
    /\ last' = Call("load_data", "fb", None, TRUE, "loaded")
    /\ UNCHANGED <<dm, dm_auth, reset_log, disk, otpVars, anaVars, wsVars, thrVars>>

Authenticate ==
    \E email \in Emails, password \in Passwords :
        /\ last' = AuthCall("dm", email, password,
                            authenticate_user(dm, email, password))
        /\ UNCHANGED <<repoVars, otpVars, anaVars, wsVars, thrVars>>

FbAuthenticate ==
    \E email \in Emails, password \in Passwords :
        /\ last' = AuthCall("fb", email, password,
                            fb_authenticate_user(fb, email, password))
        /\ UNCHANGED <<repoVars, otpVars, anaVars, wsVars, thrVars>>

NextAuth ==
    \/ ApiCreateUser
    \/ DeleteUser
    \/ FbLoad
    \/ Authenticate
    \/ FbAuthenticate

SpecAuth == Init /\ [][NextAuth]_vars

StoreOf(inst) == IF inst = "dm" THEN dm ELSE fb

\* A record that may be logged in with these credentials.
MayLogin(u, email, password) ==
    /\ u.email = email
    /\ u.status = "active"
    /\ verify_password(password, u.password) = Ret(TRUE)

\* C11: authenticate_user(email, password) returns a user only if that
\* record has the email, status "active" and a password that verifies; an
\* inactive (soft-deleted) user with the right password gets null.
C11_AuthenticateActiveOnly ==
    (last.op = "authenticate_user" /\ last.ok) =>
        /\ MayLogin(last.ret.value[1], last.email, last.password)
        /\ \E i \in 1..Len(StoreOf(last.inst).users) :
               StoreOf(last.inst).users[i] = last.ret.value[1]

-----------------------------------------------------------------------------
(* POST /api/auth/login and PUT /api/users/<id>                             *)

\* DataManager.update_user: user.update(updates) with every key of updates.
update_user(d, user_id, updates) ==
    LET i == IndexOf(d.users, user_id) IN
    IF i = 0 THEN d
    ELSE [d EXCEPT !.users[i] =
              [k \in DOMAIN @ \cup DOMAIN updates |->
                   IF k \in DOMAIN updates THEN updates[k] ELSE @[k]]]

\* The request bodies of PUT /api/users/<id>: a non-empty password is
\* hashed by the handler, an empty one is handed to update_user as it is.
UpdateInputs == {[password |-> hash_password("pw2")], [password |-> NotAHash]}

ApiUpdateUser ==
    \E id \in IdInputs(dm.users, "employee"), data \in UpdateInputs :
        LET found == get_user_by_id(dm, id) # None IN
        /\ dm' = update_user(dm, id, data)
        /\ disk' = IF found THEN save_data(dm') ELSE disk
        /\ last' = Call("update_user", "dm", id, found,
                        IF found THEN "updated" ELSE "absent")
        /\ UNCHANGED <<fb, dm_auth, reset_log, otpVars, anaVars, wsVars, thrVars>>

Response(status, body) == [status |-> status, body |-> body]

\* api_login: no handler around authenticate_user, so an exception ends the
\* request in the 500 page.
api_login(d, email, password) ==
    IF email = "admin@trivantaedge.com" /\ password = "admin123"
    THEN Response(200, MakeId("admin", 1))
    ELSE LET r == authenticate_user(d, email, password) IN
         IF r.raised THEN Response(500, "Internal Server Error")
         ELSE IF r.value = None THEN Response(401, "Invalid credentials")
         ELSE Response(200, r.value[1].id)

\* An address no user is ever created with.
UnknownEmail == "nobody@x.com"

ApiLogin ==
    \E email \in Emails \cup {UnknownEmail}, password \in Passwords :
        /\ last' = [op |-> "api_login", inst |-> "dm", id |-> None,
                    ok |-> api_login(dm, email, password).status = 200,
                    ret |-> api_login(dm, email, password),
                    email |-> email, password |-> password]
        /\ UNCHANGED <<repoVars, otpVars, anaVars, wsVars, thrVars>>

NextLogin ==
    \/ ApiCreateUser
    \/ DeleteUser
    \/ ApiUpdateUser
    \/ ApiLogin

SpecLogin == Init /\ [][NextLogin]_vars

HasActive(d, email) ==
    \E i \in 1..Len(d.users) :
        d.users[i].email = email /\ d.users[i].status = "active"

WrongPassword(d, email, password) ==
    \A i \in 1..Len(d.users) :
        ~MayLogin(d.users[i], email, password)

\* C12: a failed login does not tell whether the email exists: the response
\* (status and body) to an existing active user's email with a wrong
\* password is the response to an email no user has.
C12_NoUserEnumeration ==
    (/\ last.op = "api_login"
     /\ HasActive(dm, last.email)
     /\ WrongPassword(dm, last.email, last.password))
        => last.ret = api_login(dm, UnknownEmail, last.password)

-----------------------------------------------------------------------------
(* JWT access and refresh tokens (utils/security.py, api/auth.py)           *)

JWT_ACCESS_TOKEN_EXPIRES  == 3600
JWT_REFRESH_TOKEN_EXPIRES == 2592000
JWT_SECRET_KEY == "jwt_secret_key_trivanta_2024"

\* jwt.encode: the payload signed with the key.
Token(payload, key) == [payload |-> payload, key |-> key]

generate_jwt_token(user_id, role, t) ==
    Token([user_id |-> user_id, role |-> role, type |-> "access",
           exp |-> t + JWT_ACCESS_TOKEN_EXPIRES, iat |-> t], JWT_SECRET_KEY)

generate_refresh_token(user_id, t) ==
    Token([user_id |-> user_id, type |-> "refresh",
           exp |-> t + JWT_REFRESH_TOKEN_EXPIRES, iat |-> t], JWT_SECRET_KEY)

\* jwt.decode: a wrong signature (InvalidTokenError) or a passed expiry
\* (ExpiredSignatureError) gives None, otherwise the payload; the type of the
\* token is not looked at here.
verify_jwt_token(token, t) ==
    IF token.key # JWT_SECRET_KEY THEN None
    ELSE IF token.payload.exp <= t THEN None
    ELSE Some(token.payload)

\* The decorator without its test of payload['type'].
require_api_auth_any_type(token, t) ==
    LET payload == verify_jwt_token(token, t) IN
    IF payload = None THEN Response(401, "Invalid or expired token")
    ELSE Response(200, payload[1].user_id)

\* require_api_auth around an endpoint f: 401, or f runs as payload.user_id.
require_api_auth(token, t) ==
    LET payload == verify_jwt_token(token, t) IN
    IF payload = None \/ payload[1].type # "access"
    THEN Response(401, "Invalid or expired token")
    ELSE Response(200, payload[1].user_id)

\* POST /api/auth/refresh
api_refresh_token(d, token, t) ==
    LET payload == verify_jwt_token(token, t) IN
    IF payload = None \/ payload[1].type # "refresh"
    THEN Response(401, "Invalid refresh token")
    ELSE LET user == get_user_by_id(d, payload[1].user_id) IN
         IF user = None THEN Response(404, "User not found")
         ELSE Response(200, generate_jwt_token(user[1].id, user[1].role, t))

\* Tokens a client can present at time t: issued now or a lifetime ago,
\* signed by the server or by somebody else.
TokenInputs(d, t) ==
    LET ids == IdInputs(d.users, "employee") IN
    LET issued ==
            {generate_jwt_token(id, "employee", iat) :
                 id \in ids, iat \in {t, t - JWT_ACCESS_TOKEN_EXPIRES}}
            \cup {generate_refresh_token(id, iat) :
                 id \in ids, iat \in {t, t - JWT_REFRESH_TOKEN_EXPIRES}} IN
    issued \cup {Token(k.payload, "forged") : k \in issued}

TokenCall(op, token, r) ==
    [op |-> op, inst |-> "dm", id |-> token.payload.user_id,
     ok |-> r.status = 200, ret |-> r, token |-> token]

ProtectedRequest ==
    \E token \in TokenInputs(dm, now) :
        /\ last' = TokenCall("require_api_auth", token,
                             require_api_auth(token, now))
        /\ UNCHANGED <<repoVars, otpVars, anaVars, wsVars, thrVars>>

RefreshRequest ==
    \E token \in TokenInputs(dm, now) :
        /\ last' = TokenCall("api_refresh_token", token,
                             api_refresh_token(dm, token, now))
        /\ UNCHANGED <<repoVars, otpVars, anaVars, wsVars, thrVars>>

NextToken ==
    \/ ApiCreateUser
    \/ DeleteUser
    \/ ProtectedRequest
    \/ RefreshRequest

SpecToken == Init /\ [][NextToken]_vars

\* The token is signed by the server, not expired, and of this type.
ValidOfType(token, type) ==
    /\ token.key = JWT_SECRET_KEY
    /\ token.payload.exp > now
    /\ token.payload.type = type

\* C13: an endpoint behind require_api_auth runs only for a valid token of
\* type "access" and answers 401 to a refresh token; the refresh endpoint
\* goes on only for a valid token of type "refresh" and answers 401 to an
\* access token.
C13_TokenTypes ==
    /\ last.op = "require_api_auth" =>
           /\ last.ret.status # 401 => ValidOfType(last.token, "access")
           /\ last.token.payload.type = "refresh" => last.ret.status = 401
    /\ last.op = "api_refresh_token" =>
           /\ last.ret.status # 401 => ValidOfType(last.token, "refresh")
           /\ last.token.payload.type = "access" => last.ret.status = 401

\* A valid refresh token was presented as a bearer token and refused.
C13_Witness ==
    /\ last.op = "require_api_auth"
    /\ ValidOfType(last.token, "refresh")
    /\ last.ret.status = 401

-----------------------------------------------------------------------------
(* The verification helpers on malformed input (utils/security.py)          *)

\* Secrets as stored in user['totp_secret']: one base32 string, one not.
TotpSecrets   == {"JBSWY3DPEHPK3PXP", "not-base32!"}
Base32Secrets == {"JBSWY3DPEHPK3PXP"}
TotpTokens    == {"492039", "000000", ""}

\* The code pyotp computes for a secret at the time of the call.
totp_now(secret) == "492039"

\* pyotp.TOTP(secret).verify(token): decoding a secret that is not base32
\* raises binascii.Error; verify_totp has no handler around it.
verify_totp(secret, token) ==
    IF secret \in Base32Secrets THEN Ret(token = totp_now(secret))
    ELSE Raise("binascii.Error")

\* A string that is no JWT at all.
MalformedToken == Token(None, "")

\* verify_jwt_token as a call: both exceptions of jwt.decode are caught.
verify_jwt_token_call(token, t) == Ret(verify_jwt_token(token, t))

StoredPasswords == {dm.users[i].password : i \in 1..Len(dm.users)}

VerifyCall(op, args, r) ==
    [op |-> op, inst |-> "security", id |-> None, ok |-> ~r.raised,
     ret |-> r, args |-> args]

\* verify_password as authenticate_user calls it: on a stored password.
VerifyPassword ==
    \E password \in Passwords, hashed_password \in StoredPasswords :
        /\ last' = VerifyCall("verify_password", <<password, hashed_password>>,
                              verify_password(password, hashed_password))
        /\ UNCHANGED <<repoVars, otpVars, anaVars, wsVars, thrVars>>

VerifyTotp ==
    \E secret \in TotpSecrets, token \in TotpTokens :
        /\ last' = VerifyCall("verify_totp", <<secret, token>>,
                              verify_totp(secret, token))
        /\ UNCHANGED <<repoVars, otpVars, anaVars, wsVars, thrVars>>

VerifyJwt ==
    \E token \in TokenInputs(dm, now) \cup {MalformedToken} :
        /\ last' = VerifyCall("verify_jwt_token", <<token>>,
                              verify_jwt_token_call(token, now))
        /\ UNCHANGED <<repoVars, otpVars, anaVars, wsVars, thrVars>>

NextSecurity ==
    \/ ApiCreateUser
    \/ ApiUpdateUser
    \/ VerifyPassword
    \/ VerifyTotp
    \/ VerifyJwt

SpecSecurity == Init /\ [][NextSecurity]_vars

VerifyOps == {"verify_password", "verify_totp", "verify_jwt_token"}

\* C14: verify_password, verify_totp and verify_jwt_token fail closed: for
\* malformed input they return false or null, and no exception leaves them.
C14_FailClosed ==
    last.op \in VerifyOps => ~last.ret.raised

-----------------------------------------------------------------------------
(* Project visibility for the employee role (api/projects.py,               *)
(* routes/employee.py)                                                      *)

EmployeeIds == {MakeId("employee", 1), MakeId("employee", 2)}
Callers ==
    [user_id : EmployeeIds, role : {"employee"}]
        \cup {[user_id |-> MakeId("manager", 1), role |-> "manager"]}
AssignInputs == {{}, {MakeId("employee", 1)}, EmployeeIds}

\* FirebaseDataManager.create_project / get_all_projects
fb_create_project(d, project_data) ==
    [d EXCEPT !.projects = Append(@,
        [id |-> MakeId("project", Len(d.projects) + 1),
         type |-> project_data.type, client_id |-> project_data.client_id,
         description |-> "", status |-> Get(project_data, "status", "pending"),
         start_date |-> NoDate, end_date |-> NoDate, budget |-> 0,
         assigned_employees |-> project_data.assigned_employees,
         updated_at |-> 0, deleted_at |-> FALSE])]

fb_get_all_projects(d) == d.projects

\* "user_id in p.get('assigned_employees', [])"
AssignedTo(ps, user_id) ==
    SelectSeq(ps, LAMBDA p : user_id \in p.assigned_employees)

Count(ps, status) == Len(SelectSeq(ps, LAMBDA p : p.status = status))

\* GET /api/projects
api_get_projects(d, c) ==
    LET projects == get_all_projects(d) IN
    IF c.role = "employee" THEN AssignedTo(projects, c.user_id) ELSE projects

\* GET /api/projects/<project_id>
api_get_project(d, c, project_id) ==
    LET project == get_project_by_id(d, project_id) IN
    IF project = None THEN Response(404, None)
    ELSE IF c.role = "employee" /\ c.user_id \notin project[1].assigned_employees
    THEN Response(403, None)
    ELSE Response(200, project)

\* GET /api/projects/my-projects
api_get_my_projects(d, c) ==
    IF c.role = "employee"
    THEN Response(200, AssignedTo(get_all_projects(d), c.user_id))
    ELSE Response(403, <<>>)

\* The figures of GET /api/projects/statistics over a list of projects.
Statistics(projects) ==
    [total_projects |-> Len(projects),
     active_projects |-> Count(projects, "in_progress"),
     completed_projects |-> Count(projects, "completed"),
     pending_projects |-> Count(projects, "pending"),
     total_revenue |-> SumBudget(projects, ProjectTypes)]

\* The unfiltered variant of the statistics endpoint.
api_get_project_statistics_all(d, c) == Statistics(get_all_projects(d))

api_get_project_statistics(d, c) == Statistics(api_get_projects(d, c))

\* GET /employee/projects and /employee/projects/<project_id>
employee_projects(d, user_id) == AssignedTo(fb_get_all_projects(d), user_id)

RECURSIVE DetailScan(_, _, _, _)
DetailScan(ps, project_id, user_id, i) ==
    IF i > Len(ps) THEN None
    ELSE IF ps[i].id = project_id /\ user_id \in ps[i].assigned_employees
    THEN Some(ps[i])
    ELSE DetailScan(ps, project_id, user_id, i + 1)

employee_project_detail(d, user_id, project_id) ==
    DetailScan(fb_get_all_projects(d), project_id, user_id, 1)

\* POST /api/projects with assigned_employees in the body.
ApiCreateProject ==
    \E type \in ProjectTypes, assigned \in AssignInputs :
        LET d2 == create_project(dm,
                      [type |-> type, client_id |-> MakeId("client", 1),
                       description |-> "", budget |-> 0,
                       assigned_employees |-> assigned])
        IN Created("create_project", d2, LastOf(d2.projects))

\* POST /api/projects/<project_id>/assign
ApiAssignProject ==
    \E id \in IdInputs(dm.projects, "project"), employee_ids \in AssignInputs :
        LET found == get_project_by_id(dm, id) # None
            i == IndexOf(dm.projects, id) IN
        /\ dm' = IF found
                 THEN [dm EXCEPT !.projects[i].assigned_employees = employee_ids]
                 ELSE dm
        /\ disk' = IF found THEN save_data(dm') ELSE disk
        /\ last' = Call("assign_project", "dm", id, found,
                        IF found THEN "assigned" ELSE "absent")
        /\ UNCHANGED <<fb, dm_auth, reset_log, otpVars, anaVars, wsVars, thrVars>>

\* POST /manager/projects/create
ManagerCreateProject ==
    \E assigned \in AssignInputs :
        LET d2 == fb_create_project(fb,
                      [type |-> "installation", client_id |-> MakeId("client", 1),
                       assigned_employees |-> assigned])
        IN FbCreated("create_project", d2, LastOf(d2.projects))

\* What a read handed to the caller: the projects, and for the statistics
\* the figures.
ReadCall(op, inst, c, projects, figures) ==
    [op |-> op, inst |-> inst, id |-> None, ok |-> TRUE, ret |-> figures,
     caller |-> c, projects |-> projects]

Read(call) ==
    /\ last' = call
    /\ UNCHANGED <<repoVars, otpVars, anaVars, wsVars, thrVars>>

OptSeq(o) == IF o = None THEN <<>> ELSE o

ApiGetProjects ==
    \E c \in Callers :
        Read(ReadCall("api_get_projects", "dm", c, api_get_projects(dm, c), None))

ApiGetProject ==
    \E c \in Callers, id \in IdInputs(dm.projects, "project") :
        Read(ReadCall("api_get_project", "dm", c,
                      OptSeq(api_get_project(dm, c, id).body), None))

ApiGetMyProjects ==
    \E c \in Callers :
        Read(ReadCall("api_get_my_projects", "dm", c,
                      api_get_my_projects(dm, c).body, None))

ApiGetProjectStatistics ==
    \E c \in Callers :
        Read(ReadCall("api_get_project_statistics", "dm", c, <<>>,
                      api_get_project_statistics(dm, c)))

EmployeeProjects ==
    \E c \in Callers :
        /\ c.role = "employee"
        /\ Read(ReadCall("employee_projects", "fb", c,
                         employee_projects(fb, c.user_id), None))

EmployeeProjectDetail ==
    \E c \in Callers, id \in IdInputs(fb.projects, "project") :
        /\ c.role = "employee"
        /\ Read(ReadCall("employee_project_detail", "fb", c,
                         OptSeq(employee_project_detail(fb, c.user_id, id)), None))

NextVisibility ==
    \/ ApiCreateProject
    \/ ApiAssignProject
    \/ ManagerCreateProject
    \/ DeleteProject
    \/ ApiGetProjects
    \/ ApiGetProject
    \/ ApiGetMyProjects
    \/ ApiGetProjectStatistics
    \/ EmployeeProjects
    \/ EmployeeProjectDetail

SpecVisibility == Init /\ [][NextVisibility]_vars

ProjectReads ==
    {"api_get_projects", "api_get_project", "api_get_my_projects",
     "api_get_project_statistics", "employee_projects", "employee_project_detail"}

\* C15: a caller with role employee receives only projects whose
\* assigned_employees holds the caller's id: every project of a list, by-id,
\* my-projects or employee-page answer is assigned to the caller, and the
\* statistics are the figures of the caller's assigned projects alone.
C15_EmployeeVisibility ==
    (last.op \in ProjectReads /\ last.caller.role = "employee") =>
        /\ \A i \in 1..Len(last.projects) :
               /\ last.caller.user_id \in last.projects[i].assigned_employees
               /\ \E j \in 1..Len(StoreOf(last.inst).projects) :
                      StoreOf(last.inst).projects[j] = last.projects[i]
        /\ last.op = "api_get_project_statistics" =>
               last.ret = Statistics(AssignedTo(get_all_projects(dm),
                                                last.caller.user_id))

\* An employee asked for the list while a project assigned to somebody else
\* alone exists, and got a project of their own.
C15_Witness ==
    /\ last.op = "api_get_projects"
    /\ last.caller.role = "employee"
    /\ Len(last.projects) = 1
    /\ Len(get_all_projects(dm)) = 2

-----------------------------------------------------------------------------
(* Project status (data_manager.py, api/projects.py, routes/admin.py)       *)

\* Updates of projects made through the API in one behaviour.
MaxUpdates == 1

valid_statuses == {"pending", "in_progress", "completed", "on_hold", "cancelled"}
ProjectStatuses == valid_statuses \cup {"deleted"}

\* The status a request body or form can carry: any string.
StatusInputs == {"pending", "in_progress", "completed", "on_hold", "archived"}

\* The callers of the update endpoints: a manager and an employee.
Editors == {c \in Callers : c.user_id # MakeId("employee", 2)}

\* (start_date, end_date) of a new project; 0 is a date left out.
DateInputs == {<<1, 2>>, <<2, NoDate>>, <<NoDate, 2>>}

RECURSIVE TotalUpdates(_)
TotalUpdates(ps) ==
    IF ps = <<>> THEN 0 ELSE Head(ps).updated_at + TotalUpdates(Tail(ps))

\* POST /api/projects with start_date and end_date in the body.
ApiCreateDatedProject ==
    \E dates \in DateInputs :
        LET d2 == create_project(dm,
                      [type |-> "installation", client_id |-> MakeId("client", 1),
                       description |-> "", budget |-> 0,
                       start_date |-> dates[1], end_date |-> dates[2]])
        IN Created("create_project", d2, LastOf(d2.projects))

\* An update_project call of a handler, saved when the project was found.
Updated(op, id, u, code) ==
    LET found == get_project_by_id(dm, id) # None IN
    /\ TotalUpdates(dm.projects) < MaxUpdates
    /\ dm' = IF code = 200 THEN update_project(dm, id, u) ELSE dm
    /\ disk' = IF code = 200 THEN save_data(dm') ELSE disk
    /\ last' = Call(op, "dm", id, code = 200, code)
    /\ UNCHANGED <<fb, dm_auth, reset_log, otpVars, anaVars, wsVars, thrVars>>

\* PUT /api/projects/<project_id>: the body goes to update_project as it is.
api_update_project(d, c, project_id) ==
    IF get_project_by_id(d, project_id) = None THEN 404
    ELSE IF c.role = "employee" THEN 403
    ELSE 200

ApiUpdateProject ==
    \E id \in IdInputs(dm.projects, "project"), c \in Editors,
       status \in StatusInputs :
        Updated("api_update_project", id, [field |-> "status", value |-> status],
                api_update_project(dm, c, id))

\* PUT /api/projects/<project_id>/status: the status is validated.
api_update_project_status(d, c, project_id, status) ==
    LET project == get_project_by_id(d, project_id) IN
    IF project = None THEN 404
    ELSE IF c.role = "employee" /\ c.user_id \notin project[1].assigned_employees
    THEN 403
    ELSE IF status \notin valid_statuses THEN 400
    ELSE 200

ApiUpdateProjectStatus ==
    \E id \in IdInputs(dm.projects, "project"), c \in Editors,
       status \in StatusInputs :
        Updated("api_update_project_status", id,
                [field |-> "status", value |-> status],
                api_update_project_status(dm, c, id, status))

\* FirebaseDataManager.update_project: project.update(project_data)
fb_update_project(d, project_id, project_data) ==
    LET i == IndexOf(d.projects, project_id) IN
    IF i = 0 THEN d
    ELSE [d EXCEPT !.projects[i].status = project_data.status]

\* POST /admin/projects/<project_id>/edit: the status field of the form.
AdminEditProject ==
    \E id \in IdInputs(fb.projects, "project"), status \in StatusInputs :
        LET found == IndexOf(fb.projects, id) # 0 IN
        /\ fb' = fb_update_project(fb, id, [status |-> status])
        /\ disk' = IF found THEN save_data(fb') ELSE disk
        /\ last' = Call("edit_project", "fb", id, found,
                        IF found THEN "updated" ELSE "absent")
        /\ UNCHANGED <<dm, dm_auth, reset_log, otpVars, anaVars, wsVars, thrVars>>

\* The two tests of auto_update_project_status on one project, in order.
auto_update_one(p, t) ==
    LET started ==
            IF p.status = "pending" /\ p.start_date # NoDate /\ t >= p.start_date
            THEN [p EXCEPT !.status = "in_progress"] ELSE p
        ended ==
            IF started.status = "in_progress" /\ started.end_date # NoDate
               /\ t >= started.end_date
            THEN [started EXCEPT !.status = "completed"] ELSE started
    IN  IF ended.status = p.status THEN p
        ELSE [ended EXCEPT !.updated_at = @ + 1]

\* The variant that completes every project whose end_date has passed.
auto_update_one_eager(p, t) ==
    IF p.end_date # NoDate /\ t >= p.end_date /\ p.status # "completed"
    THEN [p EXCEPT !.status = "completed", !.updated_at = @ + 1]
    ELSE auto_update_one(p, t)

auto_update_project(p, t) == auto_update_one(p, t)

auto_update_project_status(d, t) ==
    [d EXCEPT !.projects =
        [i \in 1..Len(d.projects) |-> auto_update_project(d.projects[i], t)]]

AutoUpdateProjectStatus ==
    /\ dm' = auto_update_project_status(dm, today)
    /\ disk' = save_data(dm')
    /\ last' = Call("auto_update_project_status", "dm", None, TRUE, "")
    /\ UNCHANGED <<fb, dm_auth, reset_log, otpVars, anaVars, wsVars, thrVars>>

NextStatus ==
    \/ ApiCreateDatedProject
    \/ ApiUpdateProject
    \/ ApiUpdateProjectStatus
    \/ ManagerCreateProject
    \/ AdminEditProject
    \/ DeleteProject
    \/ NextDay
    \/ AutoUpdateProjectStatus

SpecStatus == Init /\ [][NextStatus]_vars

\* C16: in every reachable state each project's status is one of pending,
\* in_progress, completed, on_hold, cancelled, deleted.
C16_StatusDomain ==
    /\ \A i \in 1..Len(dm.projects) : dm.projects[i].status \in ProjectStatuses
    /\ \A i \in 1..Len(fb.projects) : fb.projects[i].status \in ProjectStatuses

-----------------------------------------------------------------------------
(* Users of the FirebaseDataManager by email (routes/manager.py,            *)
(* routes/admin.py, firebase_data_manager.py)                               *)

Names == {"Test User", "Other User"}

\* FirebaseDataManager.create_user with the whole user_data.
fb_create_user_data(d, user_data) ==
    [d EXCEPT !.users = Append(@,
        [id |-> MakeId("user", Len(d.users) + 1),
         name |-> user_data.name, email |-> user_data.email,
         password |-> user_data.password, role |-> user_data.role,
         status |-> "active", deleted_at |-> FALSE])]

UserCall(op, rec, ok, ret) ==
    [op |-> op, inst |-> "fb", id |-> rec.id, ok |-> ok, ret |-> ret,
     email |-> rec.email, name |-> rec.name]

\* POST /manager/employees/create: create_user without a look at the email.
ManagerCreateEmployee ==
    \E name \in Names, email \in Emails :
        LET d2 == fb_create_user_data(fb,
                      [name |-> name, email |-> email, role |-> "employee",
                       password |-> hash_password("pw1")])
        IN /\ Room(1)
           /\ fb' = d2
           /\ disk' = save_data(d2)
           /\ last' = UserCall("create_user", LastOf(d2.users), TRUE, "created")
           /\ UNCHANGED <<dm, dm_auth, reset_log, otpVars, anaVars, wsVars, thrVars>>

\* POST /admin/users/create: refused when a user has the email already.
AdminCreateUser ==
    \E name \in Names, email \in Emails :
        LET exists == \E i \in 1..Len(fb.users) : fb.users[i].email = email
            d2 == fb_create_user_data(fb,
                      [name |-> name, email |-> email, role |-> "manager",
                       password |-> hash_password("pw1")])
        IN /\ Room(1)
           /\ fb' = IF exists THEN fb ELSE d2
           /\ disk' = IF exists THEN disk ELSE save_data(d2)
           /\ last' = IF exists
                      THEN [op |-> "admin_create_user", inst |-> "fb",
                            id |-> None, ok |-> FALSE, ret |-> "exists",
                            email |-> email, name |-> name]
                      ELSE UserCall("create_user", LastOf(d2.users), TRUE,
                                    "created")
           /\ UNCHANGED <<dm, dm_auth, reset_log, otpVars, anaVars, wsVars, thrVars>>

FbGetUserByEmail ==
    \E email \in Emails \cup {UnknownEmail} :
        /\ last' = [op |-> "get_user_by_email", inst |-> "fb", id |-> None,
                    ok |-> fb_get_user_by_email(fb, email) # None,
                    ret |-> fb_get_user_by_email(fb, email),
                    email |-> email, name |-> ""]
        /\ UNCHANGED <<repoVars, otpVars, anaVars, wsVars, thrVars>>

NextUsers ==
    \/ ManagerCreateEmployee
    \/ AdminCreateUser
    \/ FbDeleteUser
    \/ FbGetUserByEmail

SpecUsers == Init /\ [][NextUsers]_vars

\* C17: after create_user(u) succeeds, get_user_by_email(u's email) returns
\* the record just created (same id and name), whatever users were created
\* before it.
C17_CreateThenGetByEmail ==
    (last.op = "create_user" /\ last.inst = "fb" /\ last.ok) =>
        LET got == fb_get_user_by_email(fb, last.email) IN
        /\ got # None
        /\ got[1].id = last.id
        /\ got[1].name = last.name

-----------------------------------------------------------------------------
(* update_X and delete_X on an id that matches no record (data_manager.py)  *)

\* DataManager.update_task: task.update(updates), here on the status.
update_task(d, task_id, updates) ==
    LET i == IndexOf(d.tasks, task_id) IN
    IF i = 0 THEN d ELSE [d EXCEPT !.tasks[i].status = updates.status]

\* An update_X call: the record or None comes back, and the document is
\* saved only when the record was found.
RepoUpdated(op, d2, id, found) ==
    /\ dm' = d2
    /\ disk' = IF found THEN save_data(d2) ELSE disk
    /\ last' = Call(op, "dm", id, found, IF found THEN "updated" ELSE "absent")
    /\ UNCHANGED <<fb, dm_auth, reset_log, otpVars, anaVars, wsVars, thrVars>>

UpdateUser ==
    \E id \in IdInputs(dm.users, "employee") :
        RepoUpdated("update_user",
                    update_user(dm, id, [password |-> hash_password("pw2")]),
                    id, get_user_by_id(dm, id) # None)

UpdateProject ==
    \E id \in IdInputs(dm.projects, "project") :
        /\ TotalUpdates(dm.projects) < MaxUpdates
        /\ RepoUpdated("update_project",
                       update_project(dm, id,
                                      [field |-> "status", value |-> "on_hold"]),
                       id, get_project_by_id(dm, id) # None)

UpdateTask ==
    \E id \in IdInputs(dm.tasks, "task") :
        RepoUpdated("update_task", update_task(dm, id, [status |-> "completed"]),
                    id, IndexOf(dm.tasks, id) # 0)

NextSentinel ==
    \/ ApiCreateUser \/ UpdateUser \/ DeleteUser
    \/ ApiCreateDatedProject \/ UpdateProject \/ DeleteProject
    \/ CreateTask \/ UpdateTask \/ DeleteTask

SpecSentinel == Init /\ [][NextSentinel]_vars

UpdateDeleteOps ==
    {"update_user", "delete_user", "update_project", "delete_project",
     "update_task", "delete_task"}

\* The collection an update_X or delete_X call works on.
TargetOf(d, op) ==
    IF op \in {"update_user", "delete_user"} THEN d.users
    ELSE IF op \in {"update_project", "delete_project"} THEN d.projects
    ELSE d.tasks

\* C18: update_X(id, fields) and delete_X(id) with an id that matches no
\* record return the null/false sentinel and leave the in-memory document
\* and the persisted document as they were.
C18_AbsentIdChangesNothing ==
    [][(/\ last'.op \in UpdateDeleteOps
        /\ last' # last
        /\ last'.id \notin Ids(TargetOf(dm, last'.op)))
           => (/\ ~last'.ok
               /\ last'.ret = "absent"
               /\ dm' = dm
               /\ disk' = disk)]_vars

\* delete_task was called with an id no task has while tasks exist.
C18_Witness ==
    /\ last.op = "delete_task"
    /\ ~last.ok
    /\ dm.tasks # <<>>
    /\ disk.doc = dm

-----------------------------------------------------------------------------
(* The order of project statuses *)

\* A move the lifecycle pending -> in_progress -> completed rules out.
Backward(from, to) ==
    \/ from = "completed" /\ to \in {"pending", "in_progress"}
    \/ from = "in_progress" /\ to = "pending"
    \/ from = "deleted" /\ to # "deleted"

\* C19: a project's status only moves forward: no operation takes a
\* completed project back to pending or in_progress, an in_progress project
\* back to pending, or a deleted project back to a status other than deleted.
C19_StatusMovesForward ==
    [][\A i \in 1..Len(dm.projects) :
           ~Backward(dm.projects[i].status, dm'.projects[i].status)]_vars

-----------------------------------------------------------------------------
(* auto_update_project_status *)

NextAuto ==
    \/ ApiCreateDatedProject
    \/ ApiUpdateProjectStatus
    \/ DeleteProject
    \/ NextDay
    \/ AutoUpdateProjectStatus

SpecAuto == Init /\ [][NextAuto]_vars

Started(p) == p.start_date # NoDate /\ p.start_date <= today
Ended(p)   == p.end_date # NoDate /\ p.end_date <= today

\* q is p with at most its status and updated_at changed.
OnlyStatusChanged(p, q) ==
    [q EXCEPT !.status = p.status, !.updated_at = p.updated_at] = p

\* The step is a call of auto_update_project_status that keeps the list of
\* projects in place and touches nothing but the projects.
AutoFrame ==
    /\ Len(dm'.projects) = Len(dm.projects)
    /\ dm' = [dm EXCEPT !.projects = dm'.projects]
    /\ \A i \in 1..Len(dm.projects) :
           OnlyStatusChanged(dm.projects[i], dm'.projects[i])

-----------------------------------------------------------------------------
(* Custom reports (utils/analytics_engine.py, api/analytics.py)             *)

ReportTypes      == {"financial", "operational", "performance"}
ReportTypeInputs == ReportTypes \cup {"summary"}

\* request.args.to_dict(): no query arguments, or one.
FilterInputs == {<<>>, [type |-> "installation"], [status |-> "completed"]}

get_all_users(d) == SelectSeq(d.users, IsActive)

IsEmployee(u) == u.role = "employee"

\* _get_operational_analytics at day t; attendance_rate is kept as the pair
\* (records of the day, employees) it is the quotient of.
get_operational_analytics(d, t) ==
    LET projects == get_all_projects(d)
        today_attendance == Len(SelectSeq(d.attendance, LAMBDA r : r.date = t))
        total_employees == Len(SelectSeq(get_all_users(d), IsEmployee))
    IN  [attendance_rate |->
             IF total_employees > 0 THEN <<today_attendance, total_employees>>
             ELSE <<0, 1>>,
         total_attendance_records |-> Len(d.attendance),
         projects_on_time |-> Count(projects, "completed"),
         projects_delayed |->
             Len(SelectSeq(projects, LAMBDA p :
                    p.status = "in_progress" /\ p.end_date # NoDate
                        /\ p.end_date < t))]

\* _get_performance_analytics: user['name'] raises KeyError for an employee
\* record that has no name.
get_performance_analytics(d) ==
    LET projects  == get_all_projects(d)
        employees == SelectSeq(get_all_users(d), IsEmployee)
    IN  IF \E i \in 1..Len(employees) : "name" \notin DOMAIN employees[i]
        THEN Raise("KeyError")
        ELSE Ret([employee_performance |->
                    [i \in 1..Len(employees) |->
                        [id |-> employees[i].id, name |-> employees[i].name,
                         total_projects |->
                             Len(AssignedTo(projects, employees[i].id)),
                         completed_projects |->
                             Count(AssignedTo(projects, employees[i].id),
                                   "completed"),
                         total_revenue |->
                             SumBudget(AssignedTo(projects, employees[i].id),
                                       ProjectTypes)]]])

\* A report: "filters or {}" is echoed, the data is computed without it.
Report(report_type, t, data, filters) ==
    [report_type |-> report_type, generated_at |-> t, data |-> data,
     filters_applied |-> filters]

\* The variant of the financial report that narrows the projects to the type
\* named in the filters.
generate_financial_report_filtered(d, filters, t) ==
    Report("financial", t,
           IF "type" \in DOMAIN filters
           THEN get_financial_analytics(
                    [d EXCEPT !.projects =
                        SelectSeq(@, LAMBDA p : p.type = filters.type)])
           ELSE get_financial_analytics(d),
           filters)

generate_financial_report(d, filters, t) ==
    Report("financial", t, get_financial_analytics(d), filters)

generate_operational_report(d, filters, t, day) ==
    Report("operational", t, get_operational_analytics(d, day), filters)

generate_performance_report(d, filters, t) ==
    LET data == get_performance_analytics(d) IN
    IF data.raised THEN data
    ELSE Ret(Report("performance", t, data.value, filters))

generate_custom_report(d, report_type, filters, t, day) ==
    IF report_type = "financial"
    THEN Ret(generate_financial_report(d, filters, t))
    ELSE IF report_type = "operational"
    THEN Ret(generate_operational_report(d, filters, t, day))
    ELSE IF report_type = "performance"
    THEN generate_performance_report(d, filters, t)
    ELSE Ret([error |-> "Unknown report type"])

\* GET /api/analytics/reports/<report_type>: an exception is answered 500.
api_generate_report(d, report_type, filters, t, day) ==
    LET report == generate_custom_report(d, report_type, filters, t, day) IN
    IF report.raised THEN Response(500, [error |-> report.value])
    ELSE Response(200, report.value)

ApiGenerateReport ==
    \E report_type \in ReportTypeInputs, filters \in FilterInputs :
        /\ last' = [op |-> "api_generate_report", inst |-> "dm", id |-> None,
                    ok |-> TRUE,
                    ret |-> api_generate_report(dm, report_type, filters,
                                                now, today),
                    report_type |-> report_type, filters |-> filters]
        /\ UNCHANGED <<repoVars, otpVars, anaVars, wsVars, thrVars>>

NextReport ==
    \/ CreateProject
    \/ DeleteProject
    \/ ApiCreateUser
    \/ CreateAttendance
    \/ ApiGenerateReport

SpecReport == Init /\ [][NextReport]_vars

-----------------------------------------------------------------------------
(* The lead-conversion forecast (utils/analytics_engine.py)                 *)

\* Leads in the repository when the forecast is asked for.
MaxLeads == 21

Min(a, b) == IF a < b THEN a ELSE b
Max(a, b) == IF a > b THEN a ELSE b

get_all_leads(d) == SelectSeq(d.leads, NotDeleted)

\* sorted(leads, key=created_at, reverse=True)[:20]: the 20 leads created
\* last (leads are appended in the order of their created_at).
recent_leads(leads) ==
    SubSeq(leads, Len(leads) - Min(20, Len(leads)) + 1, Len(leads))

\* The forecast with the confidence left as len(recent_leads) * 5.
forecast_lead_conversion_unclamped(d) ==
    LET leads  == get_all_leads(d)
        recent == recent_leads(leads)
    IN  IF leads = <<>> THEN [conversion_rate |-> <<0, 1>>, confidence |-> 0]
        ELSE [conversion_rate |->
                  <<Len(SelectSeq(recent, LAMBDA l : l.status = "converted")),
                    Len(recent)>>,
              confidence |-> Len(recent) * 5]

\* _forecast_lead_conversion; conversion_rate is kept as the pair
\* (conversions, sample size) it is the quotient of.
forecast_lead_conversion(d) ==
    LET leads  == get_all_leads(d)
        recent == recent_leads(leads)
    IN  IF leads = <<>> THEN [conversion_rate |-> <<0, 1>>, confidence |-> 0]
        ELSE [conversion_rate |->
                  <<Len(SelectSeq(recent, LAMBDA l : l.status = "converted")),
                    Len(recent)>>,
              confidence |-> Min(95, Max(50, Len(recent) * 5))]

\* A repository of n leads, the first k of them converted.
LeadsDocument(n, k) ==
    [get_default_structure EXCEPT !.leads =
        [i \in 1..n |->
            [id |-> MakeId("lead", i), business_type |-> "installation",
             status |-> IF i <= k THEN "converted" ELSE "new",
             deleted_at |-> FALSE]]]

InitForecast ==
    /\ \E n \in 0..MaxLeads : \E k \in 0..n : dm = LeadsDocument(n, k)
    /\ fb = fb_initialize_default_data
    /\ disk = save_data(dm)
    /\ dm_auth = get_default_structure
    /\ reset_log = <<>>
    /\ last = Call("init", "", None, FALSE, "")
    /\ today = 1
    /\ otp_calls = <<>>
    /\ now = 0
    /\ cache = None
    /\ calls = <<>>
    /\ connected_users = [u \in {} |-> None]
    /\ notification_queue = <<>>
    /\ emitted = [u \in Users |-> <<>>]
    /\ sent = 0
    /\ sockets = {}
    /\ thr = [t \in Threads |-> NoThread]
    /\ fh = [t \in Threads |-> NoHandle]

\* _get_predictive_analytics: 'lead_conversion_forecast'
ForecastLeadConversion ==
    /\ last' = Call("forecast_lead_conversion", "dm", None, TRUE,
                    forecast_lead_conversion(dm))
    /\ UNCHANGED <<repoVars, otpVars, anaVars, wsVars, thrVars>>

\* delete_lead on the oldest lead or on an id no lead has.
DeleteFirstLead ==
    \E id \in {MakeId("lead", 1), MakeId("lead", 0)} :
        Deleted("delete_lead", delete_lead(dm, id), id, get_lead_by_id(dm, id) # None)

NextForecast == ForecastLeadConversion \/ DeleteFirstLead

SpecForecast == InitForecast /\ [][NextForecast]_vars

\* C22: for every number of leads in the repository, zero included, the
\* confidence the lead-conversion forecast returns lies between 50 and 95.
C22_ConfidenceClamped ==
    last.op = "forecast_lead_conversion" =>
        /\ last.ret.confidence >= 50
        /\ last.ret.confidence <= 95

\* C22 as the code has it: with at least one lead that is not deleted the
\* confidence is five times the size of the sample of at most 20 leads,
\* clamped to [50, 95]; with no such lead the forecast is conversion rate 0
\* and confidence 0.
C22_ConfidenceClampedAmended ==
    last.op = "forecast_lead_conversion" =>
        LET n == Len(get_all_leads(dm)) IN
        IF n = 0
        THEN last.ret = [conversion_rate |-> <<0, 1>>, confidence |-> 0]
        ELSE /\ last.ret.confidence >= 50
             /\ last.ret.confidence <= 95
             /\ n <= 10 => last.ret.confidence = 50
             /\ (10 <= n /\ n <= 19) => last.ret.confidence = 5 * n
             /\ n >= 19 => last.ret.confidence = 95
             /\ last.ret.conversion_rate[2] = Min(20, n)

\* The forecast over more than 20 leads: the sample is cut at 20 and the
\* confidence is clamped at 95.
C22_Witness ==
    /\ last.op = "forecast_lead_conversion"
    /\ Len(get_all_leads(dm)) > 20
    /\ last.ret.confidence = 95
    /\ last.ret.conversion_rate[2] = 20

-----------------------------------------------------------------------------
(* WebSocketManager with its handlers in threads (async_mode='threading'):  *)
(* send_notification, the flush of handle_connect and the cleanup task      *)
(* interleave between their reads and writes of notification_queue.         *)

\* A thread inside a handler: where it is, the user it works for, and the
\* local it holds (the notification to append, or the filtered list).
WsThread(pc, u, buf) == [pc |-> pc, id |-> u, found |-> FALSE, buf |-> buf]

\* Notifications handed to send_notification while the handlers interleave.
MaxQueued == 2

\* The horizon of the cleanup, in seconds.
Horizon == max_age_hours * 3600

WsStep(t, th, op, u) ==
    /\ thr' = [thr EXCEPT ![t] = th]
    /\ last' = Call(op, "ws", u, TRUE, "")
    /\ UNCHANGED <<repoVars, otpVars, anaVars, fh>>

\* send_notification: "if user_id in self.connected_users" and, for a
\* connected user, the emit.
SendTest(t) ==
    \E u \in Users :
        /\ thr[t].pc = "idle"
        /\ sent < MaxQueued
        /\ sent' = sent + 1
        /\ IF u \in DOMAIN connected_users
           THEN /\ Handled(send_notification(WsState, u, sent + 1, now))
                /\ WsStep(t, NoThread, "send_notification", u)
           ELSE /\ UNCHANGED <<connected_users, notification_queue, emitted>>
                /\ WsStep(t, WsThread("append", u, sent + 1),
                          "send_notification", u)
        /\ UNCHANGED sockets

\* send_notification, else branch: self.notification_queue.append({...})
SendAppend(t) ==
    /\ thr[t].pc = "append"
    /\ notification_queue' = Append(notification_queue,
            [user_id |-> thr[t].id, notification |-> thr[t].buf,
             timestamp |-> now])
    /\ WsStep(t, NoThread, "append", thr[t].id)
    /\ UNCHANGED <<connected_users, emitted, sent, sockets>>

\* handle_connect up to the loop of _send_pending_notifications: the user is
\* registered, pending is taken from the queue and each element is sent.
ConnectBegin(t) ==
    \E u \in Users, sid \in Sids \ {s.sid : s \in sockets} :
        LET w  == [WsState EXCEPT !.connected_users =
                      [x \in (DOMAIN connected_users) \cup {u} |->
                          IF x = u THEN [sid |-> sid, role |-> "employee"]
                          ELSE connected_users[x]]]
            w2 == send_each(w, u, QueuedFor(notification_queue, u), now)
        IN  /\ thr[t].pc = "idle"
            /\ Len(emitted[u]) < MaxQueued
            /\ Handled(w2)
            /\ sockets' = sockets \cup
                    {[sid |-> sid, user_id |-> u, role |-> "employee"]}
            /\ WsStep(t, WsThread("filter", u, <<>>), "connect", u)
            /\ UNCHANGED sent

\* _send_pending_notifications, last statement, right-hand side:
\* [n for n in self.notification_queue if n['user_id'] != user_id]
FlushFilter(t) ==
    /\ thr[t].pc = "filter"
    /\ WsStep(t, WsThread("assign_flush", thr[t].id,
                          QueuedForOthers(notification_queue, thr[t].id)),
              "flush_filter", thr[t].id)
    /\ UNCHANGED wsVars

\* ... and the assignment self.notification_queue = <that list>.
FlushAssign(t) ==
    /\ thr[t].pc = "assign_flush"
    /\ notification_queue' = thr[t].buf
    /\ WsStep(t, NoThread, "flush_assign", thr[t].id)
    /\ UNCHANGED <<connected_users, emitted, sent, sockets>>

\* cleanup_old_notifications, right-hand side of its assignment.
SweepFilter(t) ==
    /\ thr[t].pc = "idle"
    /\ WsStep(t, WsThread("assign_sweep", "",
            cleanup_old_notifications(WsState, now,
                                      max_age_hours).notification_queue),
              "cleanup_filter", "")
    /\ UNCHANGED wsVars

\* ... and the assignment self.notification_queue = <that list>.
SweepAssign(t) ==
    /\ thr[t].pc = "assign_sweep"
    /\ notification_queue' = thr[t].buf
    /\ WsStep(t, NoThread, "cleanup_assign", "")
    /\ UNCHANGED <<connected_users, emitted, sent, sockets>>

\* A day passes.
Wait ==
    /\ now + Horizon <= MaxClock
    /\ now' = now + Horizon
    /\ last' = Call("wait", "", "", TRUE, "")
    /\ UNCHANGED <<repoVars, otpVars, cache, calls, wsVars, thrVars>>

NextWSThreads ==
    \/ \E t \in Threads : SendTest(t)
    \/ \E t \in Threads : SendAppend(t)
    \/ \E t \in Threads : ConnectBegin(t)
    \/ \E t \in Threads : FlushFilter(t)
    \/ \E t \in Threads : FlushAssign(t)
    \/ \E t \in Threads : SweepFilter(t)
    \/ \E t \in Threads : SweepAssign(t)
    \/ Disconnect
    \/ Wait

SpecWSThreads == Init /\ [][NextWSThreads]_vars

InQueue(e, q) == \E i \in 1..Len(q) : q[i] = e

EmittedTo(e, em) == \E i \in 1..Len(em[e.user_id]) : em[e.user_id][i] = e.notification

\* C23: with send_notification, the flush on connect and the cleanup task
\* running in threads, a queued notification leaves the queue only when it
\* has been emitted to its user or when it is older than the horizon.
C23_NeverSilentlyLost ==
    [][ \A i \in 1..Len(notification_queue) :
            LET e == notification_queue[i] IN
            ~InQueue(e, notification_queue') =>
                \/ EmittedTo(e, emitted')
                \/ e.timestamp <= now' - Horizon
      ]_vars

-----------------------------------------------------------------------------
(* The registry of connected users *)

\* The user has an open connection that was made with user_id and role.
HasOpenConnection(u) == \E s \in sockets : s.user_id = u /\ s.role # ""

-----------------------------------------------------------------------------
(* The repository instances of one process: api/users.py (dm), api/auth.py  *)
(* (dm_auth) and the app's FirebaseDataManager (fb) each load the document   *)
(* once, when they are constructed, and each save writes their own copy.     *)

\* POST /api/auth/login: api/auth.py asks its own DataManager.
ApiLoginOwnInstance ==
    \E email \in Emails, password \in Passwords :
        /\ last' = [op |-> "api_login", inst |-> "dm_auth", id |-> None,
                    ok |-> api_login(dm_auth, email, password).status = 200,
                    ret |-> api_login(dm_auth, email, password),
                    email |-> email, password |-> password]
        /\ UNCHANGED <<repoVars, otpVars, anaVars, wsVars, thrVars>>

NextInstances ==
    \/ ApiCreateUser
    \/ DeleteUser
    \/ ManagerCreateEmployee
    \/ ApiLoginOwnInstance

SpecInstances == Init /\ [][NextInstances]_vars

\* The document holds the user record of this id and email.
InDocument(u, doc) ==
    \E j \in 1..Len(doc.users) :
        doc.users[j].id = u.id /\ doc.users[j].email = u.email

\* C25: the instances stay consistent with the one persisted document: a
\* user that a mutation has put into the persisted document is not removed
\* from it by a later mutation through another instance, and a login through
\* api/auth.py's instance accepts the credentials of an active user of the
\* persisted document (a user created via POST /users can log in).
C25_InstancesConsistent ==
    [][ /\ \A i \in 1..Len(disk.doc.users) :
               InDocument(disk.doc.users[i], disk'.doc)
        /\ (/\ last'.op = "api_login"
            /\ \E i \in 1..Len(disk'.doc.users) :
                   MayLogin(disk'.doc.users[i], last'.email, last'.password))
              => last'.ret.status = 200
      ]_vars

-----------------------------------------------------------------------------
(* The auth endpoints with 2FA (api/auth.py), on one DataManager            *)

\* user.get(k) is truthy
Truthy(u, k) == k \in DOMAIN u /\ u[k] # ""

\* user[k] = v and del user[k]
SetKey(u, k, v) == [x \in DOMAIN u \cup {k} |-> IF x = k THEN v ELSE u[x]]
DelKey(u, k)    == [x \in DOMAIN u \ {k} |-> u[x]]

\* pyotp.random_base32()
generate_totp_secret == "JBSWY3DPEHPK3PXP"

\* The body that carries a fresh access and refresh token for the user.
TokenBody(user_id, role, t) ==
    [access_token |-> generate_jwt_token(user_id, role, t),
     refresh_token |-> generate_refresh_token(user_id, t)]

Error(status, message) == Response(status, [error |-> message])

\* api_login with its 2FA branch: tokens, or the challenge for a user who
\* has a totp_secret.
api_login_response(d, email, password, t) ==
    IF email = "admin@trivantaedge.com" /\ password = "admin123"
    THEN Response(200, TokenBody(MakeId("admin", 1), "admin", t))
    ELSE LET r == authenticate_user(d, email, password) IN
         IF r.raised THEN Error(500, "Internal Server Error")
         ELSE IF r.value = None THEN Error(401, "Invalid credentials")
         ELSE IF Truthy(r.value[1], "totp_secret")
         THEN Response(200, [requires_2fa |-> TRUE, user_id |-> r.value[1].id])
         ELSE Response(200, TokenBody(r.value[1].id, r.value[1].role, t))

\* POST /api/auth/2fa/verify
api_verify_2fa(d, user_id, totp_token, t) ==
    LET user == get_user_by_id(d, user_id) IN
    IF user = None \/ ~Truthy(user[1], "totp_secret")
    THEN Error(400, "Invalid user or 2FA not enabled")
    ELSE LET v == verify_totp(user[1].totp_secret, totp_token) IN
         IF v.raised THEN Error(500, "Internal Server Error")
         ELSE IF ~v.value THEN Error(401, "Invalid 2FA token")
         ELSE Response(200, TokenBody(user[1].id, user[1].role, t))

\* The outcome of a handler that may change and save the document.
Outcome(d, saved, resp) == [doc |-> d, saved |-> saved, resp |-> resp]

\* POST /api/auth/2fa/setup, as the user of the bearer token
api_setup_2fa(d, user_id) ==
    LET i == IndexOf(d.users, user_id) IN
    IF i = 0 THEN Outcome(d, FALSE, Error(404, "User not found"))
    ELSE IF Truthy(d.users[i], "totp_secret")
    THEN Outcome(d, FALSE, Error(400, "2FA already enabled"))
    ELSE Outcome([d EXCEPT !.users[i] =
                      SetKey(@, "temp_totp_secret", generate_totp_secret)],
                 TRUE, Response(200, [totp_secret |-> generate_totp_secret]))

\* POST /api/auth/2fa/enable
api_enable_2fa(d, user_id, totp_token) ==
    LET i == IndexOf(d.users, user_id) IN
    IF i = 0 THEN Outcome(d, FALSE, Error(404, "User not found"))
    ELSE IF ~Truthy(d.users[i], "temp_totp_secret")
    THEN Outcome(d, FALSE, Error(400, "2FA setup not initiated"))
    ELSE LET v == verify_totp(d.users[i].temp_totp_secret, totp_token) IN
         IF v.raised THEN Outcome(d, FALSE, Error(500, "Internal Server Error"))
         ELSE IF ~v.value THEN Outcome(d, FALSE, Error(401, "Invalid TOTP token"))
         ELSE Outcome([d EXCEPT !.users[i] =
                           DelKey(SetKey(@, "totp_secret",
                                         d.users[i].temp_totp_secret),
                                  "temp_totp_secret")],
                      TRUE, Response(200, [message |-> "2FA enabled successfully"]))

\* A request of the auth endpoints and its answer.
AuthRequest(op, id, o, args) ==
    /\ dm' = o.doc
    /\ disk' = IF o.saved THEN save_data(o.doc) ELSE disk
    /\ last' = [op |-> op, inst |-> "dm", id |-> id, ok |-> o.resp.status = 200,
                ret |-> o.resp, args |-> args]
    /\ UNCHANGED <<fb, dm_auth, reset_log, otpVars, anaVars, wsVars, thrVars>>

TotpInputs == {"492039", "000000"}

ApiLoginTokens ==
    \E email \in Emails, password \in Passwords :
        AuthRequest("api_login", None,
                    Outcome(dm, FALSE, api_login_response(dm, email, password, now)),
                    <<email, password>>)

ApiVerify2fa ==
    \E id \in IdInputs(dm.users, "employee"), totp_token \in TotpInputs :
        AuthRequest("api_verify_2fa", id,
                    Outcome(dm, FALSE, api_verify_2fa(dm, id, totp_token, now)),
                    <<totp_token>>)

ApiSetup2fa ==
    \E id \in IdInputs(dm.users, "employee") :
        AuthRequest("api_setup_2fa", id, api_setup_2fa(dm, id), <<>>)

ApiEnable2fa ==
    \E id \in IdInputs(dm.users, "employee"), totp_token \in TotpInputs :
        AuthRequest("api_enable_2fa", id, api_enable_2fa(dm, id, totp_token),
                    <<totp_token>>)

NextDeleted ==
    \/ ApiCreateUser
    \/ DeleteUser
    \/ ApiSetup2fa
    \/ ApiEnable2fa
    \/ ApiLoginTokens
    \/ ApiVerify2fa
    \/ RefreshRequest

SpecDeleted == Init /\ [][NextDeleted]_vars

\* The user the last answer carries a new access token for, if any.
AccessTokenFor(user_id) ==
    \/ /\ last.op \in {"api_login", "api_verify_2fa"}
       /\ "access_token" \in DOMAIN last.ret.body
       /\ last.ret.body.access_token.payload.user_id = user_id
    \/ /\ last.op = "api_refresh_token"
       /\ last.ret.status = 200
       /\ last.ret.body.payload.user_id = user_id

\* C26: no auth endpoint (login, 2FA verify, token refresh) answers with an
\* access token for a user whose status is inactive.
C26_NoTokenAfterDelete ==
    \A i \in 1..Len(dm.users) :
        dm.users[i].status = "inactive" => ~AccessTokenFor(dm.users[i].id)

-----------------------------------------------------------------------------
(* 2FA on the REST API (api/auth.py) and on the web login (app.py)          *)

\* POST /api/auth/2fa/disable
api_disable_2fa(d, user_id, totp_token) ==
    LET i == IndexOf(d.users, user_id) IN
    IF i = 0 \/ ~Truthy(d.users[i], "totp_secret")
    THEN Outcome(d, FALSE, Error(400, "2FA not enabled"))
    ELSE LET v == verify_totp(d.users[i].totp_secret, totp_token) IN
         IF v.raised THEN Outcome(d, FALSE, Error(500, "Internal Server Error"))
         ELSE IF ~v.value THEN Outcome(d, FALSE, Error(401, "Invalid TOTP token"))
         ELSE Outcome([d EXCEPT !.users[i] = DelKey(@, "totp_secret")],
                      TRUE, Response(200, [message |-> "2FA disabled successfully"]))

ApiDisable2fa ==
    \E id \in IdInputs(dm.users, "employee"), totp_token \in TotpInputs :
        AuthRequest("api_disable_2fa", id, api_disable_2fa(dm, id, totp_token),
                    <<totp_token>>)

\* The session cookie after a web request: the logged-in user, or the user
\* waiting for the 2FA step.
Session(user_id, temp_user_id) ==
    [user_id |-> user_id, temp_user_id |-> temp_user_id]

NoSession == Session(None, None)

\* POST /login
login(d, email, password) ==
    IF email = "admin@trivantaedge.com" /\ password = "As@102005"
    THEN Session(MakeId("admin", 1), None)
    ELSE LET r == fb_authenticate_user(d, email, password) IN
         IF r.value = None THEN NoSession
         ELSE IF Truthy(r.value[1], "totp_secret")
         THEN Session(None, r.value[1].id)
         ELSE Session(r.value[1].id, None)

\* POST /verify-2fa with the session of a login that asked for 2FA
verify_2fa(d, session, totp_token) ==
    LET user == GetById(d.users, session.temp_user_id) IN
    IF user = None \/ ~Truthy(user[1], "totp_secret") THEN session
    ELSE LET v == verify_totp(user[1].totp_secret, totp_token) IN
         IF ~v.raised /\ v.value THEN Session(user[1].id, None) ELSE session

\* POST /setup-2fa of the logged-in user: action 'setup', then 'verify'.
setup_2fa(d, user_id, action, totp_token) ==
    LET i == IndexOf(d.users, user_id) IN
    IF Truthy(d.users[i], "totp_secret") THEN Outcome(d, FALSE, "already")
    ELSE IF action = "setup"
    THEN Outcome([d EXCEPT !.users[i] =
                      SetKey(@, "temp_totp_secret", generate_totp_secret)],
                 TRUE, "setup")
    ELSE IF /\ Truthy(d.users[i], "temp_totp_secret")
            /\ verify_totp(d.users[i].temp_totp_secret, totp_token) = Ret(TRUE)
    THEN Outcome([d EXCEPT !.users[i] =
                      DelKey(SetKey(@, "totp_secret",
                                    d.users[i].temp_totp_secret),
                             "temp_totp_secret")],
                 TRUE, "enabled")
    ELSE Outcome(d, FALSE, "invalid")

WebRequest(op, id, d2, saved, ret) ==
    /\ fb' = d2
    /\ disk' = IF saved THEN save_data(d2) ELSE disk
    /\ last' = [op |-> op, inst |-> "fb", id |-> id, ok |-> TRUE, ret |-> ret]
    /\ UNCHANGED <<dm, dm_auth, reset_log, otpVars, anaVars, wsVars, thrVars>>

WebLogin ==
    \E email \in {"admin@trivantaedge.com"}, password \in {"As@102005", "pw1"} :
        WebRequest("login", None, fb, FALSE, login(fb, email, password))

WebVerify2fa ==
    \E id \in Ids(fb.users), totp_token \in TotpInputs :
        WebRequest("verify_2fa", id, fb, FALSE,
                   verify_2fa(fb, Session(None, id), totp_token))

WebSetup2fa ==
    \E id \in Ids(fb.users), action \in {"setup", "verify"} :
        LET o == setup_2fa(fb, id, action, totp_now(generate_totp_secret)) IN
        WebRequest("setup_2fa", id, o.doc, o.saved, o.resp)

Next2fa ==
    \/ ApiCreateUser
    \/ ApiSetup2fa
    \/ ApiEnable2fa
    \/ ApiDisable2fa
    \/ ApiLoginTokens
    \/ ApiVerify2fa
    \/ RefreshRequest
    \/ WebSetup2fa
    \/ WebLogin
    \/ WebVerify2fa

Spec2fa == Init /\ [][Next2fa]_vars

\* The last web request has left a logged-in session of this user.
SessionFor(user_id) ==
    /\ last.op \in {"login", "verify_2fa"}
    /\ last.ret.user_id = user_id

\* C27: for a user whose record holds a totp_secret, an access token or a
\* logged-in session is issued only by a 2FA verification step; a login of
\* such a user gives the 2FA challenge and nothing else.
C27_TwoFactorRequired ==
    /\ \A i \in 1..Len(dm.users) :
           (Truthy(dm.users[i], "totp_secret") /\ AccessTokenFor(dm.users[i].id))
               => last.op = "api_verify_2fa"
    /\ \A i \in 1..Len(fb.users) :
           (Truthy(fb.users[i], "totp_secret") /\ SessionFor(fb.users[i].id))
               => last.op = "verify_2fa"

-----------------------------------------------------------------------------
(* Password reset (api/auth.py), on one DataManager                         *)

\* timedelta(hours=24), in seconds
ResetLifetime == 86400

MaxResets == 1

\* The passwords of the reset requests and the characters of each.
NewPasswordInputs == {"Reset!23", "reset!23", "Re!2", "Password"}

characters(password) ==
    CASE password = "Reset!23" -> <<"R", "e", "s", "e", "t", "!", "2", "3">>
      [] password = "reset!23" -> <<"r", "e", "s", "e", "t", "!", "2", "3">>
      [] password = "Re!2"     -> <<"R", "e", "!", "2">>
      [] password = "Password" -> <<"P", "a", "s", "s", "w", "o", "r", "d">>

UpperChars   == {"R", "P"}
LowerChars   == {"a", "d", "e", "o", "r", "s", "t", "w"}
DigitChars   == {"2", "3"}
SpecialChars == {"!"}

PASSWORD_MIN_LENGTH == 8

HasChar(password, chars) ==
    \E i \in 1..Len(characters(password)) : characters(password)[i] \in chars

\* str.lower() on the characters above
LowerOf(c) == IF c = "R" THEN "r" ELSE IF c = "P" THEN "p" ELSE c

lower(password) ==
    [i \in 1..Len(characters(password)) |-> LowerOf(characters(password)[i])]

CommonPasswords == {<<"p", "a", "s", "s", "w", "o", "r", "d">>}

\* SecurityManager.validate_password_strength(password)['valid']
validate_password_strength(password) ==
    /\ Len(characters(password)) >= PASSWORD_MIN_LENGTH
    /\ HasChar(password, UpperChars)
    /\ HasChar(password, LowerChars)
    /\ HasChar(password, DigitChars)
    /\ HasChar(password, SpecialChars)
    /\ lower(password) \notin CommonPasswords

\* security_manager.generate_session_token(): secrets.token_urlsafe(64), a
\* value that was never drawn before; the n-th one drawn.
generate_session_token(n) == MakeId("reset_token", n)

\* The index in d.users of the first active user that satisfies P, or 0.
FirstActive(d, P(_)) ==
    LET hits == {i \in 1..Len(d.users) : IsActive(d.users[i]) /\ P(d.users[i])} IN
    IF hits = {} THEN 0 ELSE CHOOSE i \in hits : \A j \in hits : i <= j

\* POST /api/auth/password/reset
api_request_password_reset(d, email, reset_token, t) ==
    LET i == FirstActive(d, LAMBDA u : u.email = email) IN
    IF i = 0
    THEN Outcome(d, FALSE,
                 Response(200, [message |-> "If email exists, reset link will be sent"]))
    ELSE Outcome([d EXCEPT !.users[i] =
                      SetKey(SetKey(@, "reset_token", reset_token),
                             "reset_token_expires", t + ResetLifetime)],
                 TRUE,
                 Response(200, [message |-> "If email exists, reset link will be sent"]))

\* The handler without "del user['reset_token']".
api_confirm_password_reset_keeps_token(d, token, new_password, t) ==
    LET i == FirstActive(d, LAMBDA u : Get(u, "reset_token", None) = token) IN
    IF i = 0 THEN Outcome(d, FALSE, Error(400, "Invalid reset token"))
    ELSE IF t > Get(d.users[i], "reset_token_expires", t)
    THEN Outcome(d, FALSE, Error(400, "Reset token expired"))
    ELSE IF ~validate_password_strength(new_password)
    THEN Outcome(d, FALSE, Error(400, "Password does not meet requirements"))
    ELSE Outcome([d EXCEPT !.users[i].password = hash_password(new_password)],
                 TRUE, Response(200, [message |-> "Password reset successfully"]))

\* POST /api/auth/password/reset/confirm, with a token and a new password
\* that are not empty
api_confirm_password_reset(d, token, new_password, t) ==
    LET i == FirstActive(d, LAMBDA u : Get(u, "reset_token", None) = token) IN
    IF i = 0 THEN Outcome(d, FALSE, Error(400, "Invalid reset token"))
    ELSE IF t > Get(d.users[i], "reset_token_expires", t)
    THEN Outcome(d, FALSE, Error(400, "Reset token expired"))
    ELSE IF ~validate_password_strength(new_password)
    THEN Outcome(d, FALSE, Error(400, "Password does not meet requirements"))
    ELSE Outcome([d EXCEPT !.users[i] =
                      DelKey(DelKey([@ EXCEPT !.password = hash_password(new_password)],
                                    "reset_token"),
                             "reset_token_expires")],
                 TRUE, Response(200, [message |-> "Password reset successfully"]))

\* A request of the reset endpoints and its answer.
ResetRequest(op, o, args) ==
    /\ dm' = o.doc
    /\ disk' = IF o.saved THEN save_data(o.doc) ELSE disk
    /\ last' = [op |-> op, inst |-> "dm", id |-> None, ok |-> o.resp.status = 200,
                ret |-> o.resp, args |-> args]
    /\ UNCHANGED <<fb, dm_auth, otpVars, anaVars, wsVars, thrVars>>

ApiRequestPasswordReset ==
    \E email \in Emails :
        /\ Len(reset_log) < MaxResets
        /\ reset_log' = Append(reset_log, FALSE)
        /\ ResetRequest("api_request_password_reset",
                        api_request_password_reset(dm, email,
                            generate_session_token(Len(reset_log) + 1), now),
                        <<email>>)

\* The client sends a token that was drawn for some request, or one that
\* never was (number 0).
ApiConfirmPasswordReset ==
    \E n \in 0..Len(reset_log), new_password \in NewPasswordInputs :
        LET o == api_confirm_password_reset(dm, generate_session_token(n),
                                            new_password, now) IN
        /\ reset_log' = IF o.resp.status = 200
                        THEN [reset_log EXCEPT ![n] = TRUE] ELSE reset_log
        /\ ResetRequest("api_confirm_password_reset", o, <<n, new_password>>)

\* Time passes: to the expiry of a token drawn at the start, then one
\* second past it.
PassTime ==
    /\ now <= ResetLifetime
    /\ now' = IF now < ResetLifetime THEN ResetLifetime ELSE now + 1
    /\ last' = [op |-> "pass_time", inst |-> "dm", id |-> None, ok |-> TRUE,
                ret |-> Response(200, <<>>), args |-> <<>>]
    /\ UNCHANGED <<repoVars, otpVars, cache, calls, wsVars, thrVars>>

\* POST /api/users by an admin, the password already set
ApiCreateEmployee ==
    \E email \in Emails :
        LET d2 == create_user_data(dm,
                      [name |-> email, email |-> email, role |-> "employee",
                       password |-> hash_password("pw1")]) IN
        Created("create_user", d2, LastOf(d2.users))

DeleteResetUser ==
    \E id \in IdInputs(dm.users, "employee") :
        /\ get_user_by_id(dm, id) # None
        /\ ResetRequest("delete_user", Outcome(delete_user(dm, id), TRUE,
                                               Response(200, <<>>)), <<id>>)
        /\ UNCHANGED reset_log

NextReset ==
    \/ ApiCreateEmployee
    \/ DeleteResetUser
    \/ ApiRequestPasswordReset
    \/ ApiConfirmPasswordReset
    \/ PassTime

SpecReset == Init /\ [][NextReset]_vars

\* The index in dm.users of the active user who stores the n-th token.
HolderOf(n) ==
    FirstActive(dm, LAMBDA u : Get(u, "reset_token", None) = generate_session_token(n))

\* C28: a confirm succeeds only with the reset_token stored on an active
\* user, not after its expiry and with a new password that passes the
\* policy; the success sets that user's password and no other, and leaves
\* the token on no user; a token that has changed a password is rejected;
\* a rejected confirm leaves the document, and so every password, unchanged.
C28_ResetTokenOnce ==
    [][last'.op = "api_confirm_password_reset" =>
        LET n == last'.args[1]
            new_password == last'.args[2]
            i == HolderOf(n) IN
        /\ last'.ret.status = 200 =>
              /\ i # 0
              /\ now <= dm.users[i].reset_token_expires
              /\ validate_password_strength(new_password)
              /\ n \in 1..Len(reset_log) /\ ~reset_log[n]
              /\ dm'.users[i].password = hash_password(new_password)
              /\ \A j \in 1..Len(dm.users) :
                     /\ j # i => dm'.users[j] = dm.users[j]
                     /\ Get(dm'.users[j], "reset_token", None)
                            # generate_session_token(n)
        /\ last'.ret.status # 200 => dm' = dm /\ disk' = disk
      ]_vars

\* A token that has changed a password is sent again with a password that
\* passes the policy, and is rejected.
C28_Witness ==
    /\ last.op = "api_confirm_password_reset"
    /\ last.ret.status = 400
    /\ last.args[1] \in 1..Len(reset_log)
    /\ reset_log[last.args[1]]
    /\ validate_password_strength(last.args[2])

-----------------------------------------------------------------------------
(* The user endpoints of the REST API as an employee calls them             *)
(* (api/users.py, api/auth.py)                                              *)

\* The bodies of PUT /api/users/<id> and PUT /api/auth/profile.
BodyInputs ==
    {<<>>, [role |-> "admin"], [status |-> "inactive"], [name |-> "renamed"],
     [password |-> "Reset!23"], [password |-> "Password"]}

\* The access tokens the server has issued to the users as employees.
EmployeeTokens(d, t) == {generate_jwt_token(id, "employee", t) : id \in Ids(d.users)}

\* data restricted to the keys of keys
Only(data, keys) == [k \in DOMAIN data \cap keys |-> data[k]]

\* PUT /api/users/<user_id>
api_update_user(d, token, user_id, data, t) ==
    LET auth == require_api_auth(token, t) IN
    IF auth.status # 200 THEN Outcome(d, FALSE, Error(401, auth.body))
    ELSE IF token.payload.role \notin {"admin", "manager"} /\ auth.body # user_id
    THEN Outcome(d, FALSE, Error(403, "Access denied"))
    ELSE IF get_user_by_id(d, user_id) = None
    THEN Outcome(d, FALSE, Error(404, "User not found"))
    ELSE IF DOMAIN data = {}
    THEN Outcome(d, FALSE, Error(400, "No data provided"))
    ELSE IF Truthy(data, "password") /\ ~validate_password_strength(data.password)
    THEN Outcome(d, FALSE, Error(400, "Password does not meet requirements"))
    ELSE LET hashed == IF Truthy(data, "password")
                       THEN [data EXCEPT !.password = hash_password(@)]
                       ELSE data IN
         Outcome(update_user(d, user_id, hashed), TRUE,
                 Response(200, [message |-> "User updated successfully"]))

\* PUT /api/auth/profile
api_update_profile(d, token, data, t) ==
    LET auth == require_api_auth(token, t)
        updates == Only(data, {"name", "email"}) IN
    IF auth.status # 200 THEN Outcome(d, FALSE, Error(401, auth.body))
    ELSE IF DOMAIN data = {}
    THEN Outcome(d, FALSE, Error(400, "No data provided"))
    ELSE IF get_user_by_id(d, auth.body) = None
    THEN Outcome(d, FALSE, Error(404, "User not found"))
    ELSE IF DOMAIN updates = {}
    THEN Outcome(d, FALSE, Error(400, "No valid updates provided"))
    ELSE Outcome(update_user(d, auth.body, updates), TRUE,
                 Response(200, [message |-> "Profile updated successfully"]))

\* DELETE /api/users/<user_id>
api_delete_user(d, token, user_id, t) ==
    LET auth == require_api_auth(token, t) IN
    IF auth.status # 200 THEN Outcome(d, FALSE, Error(401, auth.body))
    ELSE IF token.payload.role \notin {"admin", "manager"}
    THEN Outcome(d, FALSE, Error(403, "Insufficient permissions"))
    ELSE IF get_user_by_id(d, user_id) = None
    THEN Outcome(d, FALSE, Error(404, "User not found"))
    ELSE Outcome(delete_user(d, user_id), TRUE,
                 Response(200, [message |-> "User deleted successfully"]))

\* A request that carries an access token, and its answer.
TokenRequest(op, token, o, args) ==
    /\ dm' = o.doc
    /\ disk' = IF o.saved THEN save_data(o.doc) ELSE disk
    /\ last' = [op |-> op, inst |-> "dm", id |-> token.payload.user_id,
                ok |-> o.resp.status = 200, ret |-> o.resp, token |-> token,
                args |-> args]
    /\ UNCHANGED <<fb, dm_auth, reset_log, otpVars, anaVars, wsVars, thrVars>>

EmployeeUpdateUser ==
    \E token \in EmployeeTokens(dm, now), id \in IdInputs(dm.users, "employee"),
       data \in BodyInputs :
        TokenRequest("api_update_user", token,
                     api_update_user(dm, token, id, data, now), <<id, data>>)

EmployeeUpdateProfile ==
    \E token \in EmployeeTokens(dm, now), data \in BodyInputs :
        TokenRequest("api_update_profile", token,
                     api_update_profile(dm, token, data, now), <<data>>)

EmployeeDeleteUser ==
    \E token \in EmployeeTokens(dm, now), id \in IdInputs(dm.users, "employee") :
        TokenRequest("api_delete_user", token,
                     api_delete_user(dm, token, id, now), <<id>>)

NextEmployee ==
    \/ ApiCreateEmployee
    \/ EmployeeUpdateUser
    \/ EmployeeUpdateProfile
    \/ EmployeeDeleteUser

SpecEmployee == Init /\ [][NextEmployee]_vars

EmployeeOps == {"api_update_user", "api_update_profile", "api_delete_user"}

\* C29: a request made with an employee-role token leaves every user's role
\* and status as they were, and leaves the record of every user other than
\* the caller unchanged.
C29_EmployeeCannotEscalate ==
    [][(last'.op \in EmployeeOps /\ last'.token.payload.role = "employee") =>
          \A i \in 1..Len(dm.users) :
              /\ dm'.users[i].role = dm.users[i].role
              /\ dm'.users[i].status = dm.users[i].status
              /\ dm.users[i].id # last'.id => dm'.users[i] = dm.users[i]
      ]_vars

-----------------------------------------------------------------------------
(* Logout (api/auth.py)                                                     *)

\* POST /api/auth/logout: behind require_api_auth, the handler only answers.
api_logout(token, t) ==
    LET auth == require_api_auth(token, t) IN
    IF auth.status # 200 THEN auth
    ELSE Response(200, "Logged out successfully")

ApiLogout ==
    \E token \in TokenInputs(dm, now) :
        /\ last' = TokenCall("api_logout", token, api_logout(token, now))
        /\ UNCHANGED <<repoVars, otpVars, anaVars, wsVars, thrVars>>

NextLogout ==
    \/ ApiCreateEmployee
    \/ ApiLogout
    \/ ProtectedRequest
    \/ RefreshRequest

SpecLogout == Init /\ [][NextLogout]_vars

\* C30: a request that presents the access token of a logout that has just
\* succeeded is answered 401 by require_api_auth.
C30_LogoutInvalidates ==
    [][(/\ last.op = "api_logout" /\ last.ret.status = 200
        /\ last'.op = "require_api_auth" /\ last'.token = last.token)
          => last'.ret.status = 401
      ]_vars

=============================================================================
